---------------------------- MODULE Spec2Model ----------------------------
(***************************************************************************)
(* A model of the pulumi-numeris component library: each component         *)
(* constructor (src/components/...) is one action that validates its       *)
(* arguments, registers the component and submits its child resources to   *)
(* the provider in source order.                                           *)
(*                                                                         *)
(* Encoding of Python values                                               *)
(*   str       a sequence of atoms (TLA+ strings); a caller-supplied name  *)
(*             is a sequence of one-character atoms, a literal of the      *)
(*             source is one atom, f"{name}-sg" is name \o <<"-sg">>.      *)
(*   id / arn  one of the tokens OUTPUT (a pulumi.Output), NONE, "" or a   *)
(*             non-empty string.                                           *)
(*   list      [t |-> "list" | "Output" | "None", v |-> sequence].         *)
(*   int       [t |-> "int" | "None", v |-> integer].                      *)
(*   dict      a function from keys to values; an optional dict is <<>>    *)
(*             (None) or <<d>>.                                            *)
(***************************************************************************)
EXTENDS Integers, Sequences, FiniteSets, TLC

VARIABLES
    stack,              \* pulumi.get_stack(), fixed for the process
    call,               \* the constructor call last made: kind and arguments
    result,             \* how that call ended: returned, or the exception raised
    emitted,            \* what that call submitted to the engine, in order
    priority_counter,   \* HostBasedALBTargetGroup._priority_counter
    config,             \* the stack configuration __main__ reads
    pc,                 \* the statement of __main__ that runs next
    log,                \* the declarations of __main__ made so far, in order
    threads             \* where each thread of the process is in its declaration

vars == <<stack, call, result, emitted, priority_counter, config, pc, log, threads>>
main_vars == <<config, pc, log, threads>>

-----------------------------------------------------------------------------
(* Bounds of the inputs *)

MaxNameLen == 2
MaxRules == 2

-----------------------------------------------------------------------------
(* Python values *)

OUTPUT == "<Output>"
NONE == "<None>"

IsOutput(v) == v = OUTPUT
IsStr(v) == v \notin {OUTPUT, NONE}
\* `not v` for an id-like value
Falsy(v) == v \in {"", NONE}
\* `not v or not isinstance(v, str)`
NotNonEmptyStr(v) == Falsy(v) \/ ~IsStr(v)

PyList(s) == [t |-> "list", v |-> s]
PyListOutput == [t |-> "Output", v |-> <<>>]
\* `not l or not isinstance(l, list)`
NotNonEmptyList(l) == l.t # "list" \/ Len(l.v) = 0

EmptyDict == [k \in {} |-> ""]
\* A merge in which the left operand wins a collision: {**b, **a}
DictMerge_LeftWins(a, b) ==
    [k \in (DOMAIN a) \cup (DOMAIN b) |-> IF k \in DOMAIN a THEN a[k] ELSE b[k]]

\* {**a, **b}: the keys of both, b's value on a collision
DictMerge(a, b) ==
    [k \in (DOMAIN a) \cup (DOMAIN b) |-> IF k \in DOMAIN b THEN b[k] ELSE a[k]]
\* `tags or {}`
OrEmpty(opt) == IF Len(opt) = 0 THEN EmptyDict ELSE opt[1]
\* d.get(k): <<>> for None, <<v>> for the value
Get(d, k) == IF k \in DOMAIN d THEN <<d[k]>> ELSE <<>>
\* d.get(k, default)
GetOr(d, k, default) == IF k \in DOMAIN d THEN d[k] ELSE default

RECURSIVE SeqsUpTo(_, _)
SeqsUpTo(S, n) ==
    IF n = 0 THEN {<<>>}
    ELSE LET shorter == SeqsUpTo(S, n - 1)
         IN shorter \cup {Append(s, x) : s \in {q \in shorter : Len(q) = n - 1}, x \in S}

-----------------------------------------------------------------------------
(* Exceptions and results *)

Returned == [status |-> "ok", exc |-> "none", msg |-> <<>>]
Raise(cls, m) == [status |-> "raised", exc |-> cls, msg |-> m]
ProviderError == Raise("Exception", <<"provider rejected the request">>)

NoError == <<>>
Failed(v) == Len(v) > 0

-----------------------------------------------------------------------------
(* Resources as the engine sees them *)

Component(type, name) ==
    [type |-> type, name |-> name, tags |-> <<>>, props |-> EmptyDict]
Resource(type, name, tags, props) ==
    [type |-> type, name |-> name, tags |-> tags, props |-> props]

\* Submitting rs in order when the provider raises at the f-th submission
\* (f = 0: never): what got through.
Through(rs, f) == IF f \in 1..Len(rs) THEN SubSeq(rs, 1, f - 1) ELSE rs
Rejects(rs, f) == f \in 1..Len(rs)

-----------------------------------------------------------------------------
(* re.match(r'^[a-zA-Z0-9-]+$', name) *)

NameAtoms == {"a", "Z", "7", "-"}
\* The name literals of __main__ and the stack names made of such characters
\* only; each is one atom.
NameLiterals ==
    {"my-app-vpc-", "alb-sg-", "ecs-sg-", "rds-sg-", "my-app-rds-",
     "ecs-task-execution-policy-", "ecs-execution-role-", "ecs-task-policy-",
     "ecs-task-role-", "test-cluster-", "my-app-", "my-app-alb-", "nginx-",
     "kibana-logstash-sg-", "elasticsearch-sg-", "elasticsearch-instance-",
     "kibana-logstash-instance-", "dev", "prod"}

ReMatchName(s) ==
    LET \* `$` also matches just before a newline that ends the string
        body == IF Len(s) > 0 /\ s[Len(s)] = "\n" THEN SubSeq(s, 1, Len(s) - 1) ELSE s
    IN Len(body) >= 1 /\ \A i \in 1..Len(body) : body[i] \in NameAtoms \cup NameLiterals

-----------------------------------------------------------------------------
(* components/ec2/sg.py *)

SG_validate_inputs(name, vpc_id, ingress, egress) ==
    IF IsOutput(vpc_id) THEN NoError
    ELSE IF Len(name) = 0 THEN <<"Name must be a non-empty string">>
    ELSE IF ~ReMatchName(name)
        THEN <<"Name can only contain alphanumeric characters and hyphens">>
    ELSE IF NotNonEmptyStr(vpc_id) THEN <<"VPC ID must be a non-empty string">>
    ELSE IF Len(ingress) = 0 THEN <<"Ingress rules must be a non-empty list">>
    ELSE IF Len(egress) = 0 THEN <<"Egress rules must be a non-empty list">>
    ELSE NoError

IsDict(rule) == rule.t = "dict"

\* The loop body with no default for a missing protocol: rule.get("protocol")
FormatRule_NoDefault(rule) ==
    IF "security_group_id" \in DOMAIN rule.d
    THEN << [protocol |-> Get(rule.d, "protocol"),
             from_port |-> Get(rule.d, "from_port"),
             to_port |-> Get(rule.d, "to_port"),
             security_groups |-> <<rule.d["security_group_id"]>>] >>
    ELSE IF "cidr_block" \in DOMAIN rule.d
    THEN << [protocol |-> Get(rule.d, "protocol"),
             from_port |-> Get(rule.d, "from_port"),
             to_port |-> Get(rule.d, "to_port"),
             cidr_blocks |-> <<rule.d["cidr_block"]>>] >>
    ELSE <<>>

\* One rule of the loop: the entries it appends.
FormatRule(rule) ==
    IF "security_group_id" \in DOMAIN rule.d
    THEN << [protocol |-> GetOr(rule.d, "protocol", "tcp"),
             from_port |-> Get(rule.d, "from_port"),
             to_port |-> Get(rule.d, "to_port"),
             security_groups |-> <<rule.d["security_group_id"]>>] >>
    ELSE IF "cidr_block" \in DOMAIN rule.d
    THEN << [protocol |-> GetOr(rule.d, "protocol", "tcp"),
             from_port |-> Get(rule.d, "from_port"),
             to_port |-> Get(rule.d, "to_port"),
             cidr_blocks |-> <<rule.d["cidr_block"]>>] >>
    ELSE <<>>

RECURSIVE FormatRules(_)
FormatRules(ingress) ==
    IF Len(ingress) = 0 THEN <<>>
    ELSE FormatRule(Head(ingress)) \o FormatRules(Tail(ingress))

\* _format_ingress_rules: the list, or the ValueError of the first non-dict rule
SG_format_ingress_rules(ingress) ==
    IF \E i \in 1..Len(ingress) : ~IsDict(ingress[i])
    THEN [err |-> <<"Ingress rule must be a dictionary containing 'security_group_id' or 'cidr_block'">>,
          val |-> <<>>]
    ELSE [err |-> NoError, val |-> FormatRules(ingress)]

SG_tags(name, tags) ==
    DictMerge([Owner |-> "Dijam", Project |-> "Numeris", CostCenter |-> "1234",
               Name |-> name \o <<"-sg">>, Environment |-> <<stack>>,
               ManagedBy |-> "Pulumi"],
              OrEmpty(tags))

\* _create_security_group: [err, rs] with rs the resource it submits
SG_create_security_group(name, vpc_id, ingress, egress, tags) ==
    LET f == SG_format_ingress_rules(ingress)
    IN IF Failed(f.err)
       THEN [err |-> <<"Failed to create Security Group">> \o f.err, rs |-> <<>>]
       ELSE [err |-> NoError,
             rs |-> << Resource("aws:ec2/securityGroup:SecurityGroup",
                                name \o <<"-sg">>,
                                <<SG_tags(name, tags)>>,
                                [vpc_id |-> vpc_id, ingress |-> f.val,
                                 egress |-> egress]) >>]

SecurityGroupInit(name, vpc_id, ingress, egress, tags, fail) ==
    LET v == SG_validate_inputs(name, vpc_id, ingress, egress)
        comp == Component("custom:resource:SecurityGroup", name)
        c == SG_create_security_group(name, vpc_id, ingress, egress, tags)
    IN /\ call' = [kind |-> "SecurityGroup",
                   args |-> [name |-> name, vpc_id |-> vpc_id, ingress |-> ingress,
                             egress |-> egress, tags |-> tags, fail |-> fail]]
       /\ IF Failed(v)
          THEN /\ result' = Raise("ValueError", v)
               /\ emitted' = <<>>
          ELSE IF Failed(c.err)
          THEN /\ result' = Raise("Exception", <<"Failed to create Security Group">> \o c.err)
               /\ emitted' = <<comp>>
          ELSE IF Rejects(c.rs, fail)
          THEN /\ result' = Raise("Exception",
                                  <<"Failed to create Security Group",
                                    "Failed to create Security Group">> \o ProviderError.msg)
               /\ emitted' = <<comp>> \o Through(c.rs, fail)
          ELSE /\ result' = Returned
               /\ emitted' = <<comp>> \o c.rs
       /\ UNCHANGED <<stack, priority_counter>>

-----------------------------------------------------------------------------
(* ipaddress.ip_network(cidr_block), IPv4, strict *)

\* A CIDR string "o1.o2.o3.o4/p" is [text |-> FALSE, o |-> <<o1, o2, o3, o4>>,
\* p |-> <<p>>], or p |-> <<>> when it has no "/p" part; any string that is no
\* dotted quad is [text |-> TRUE, ...].
Cidr(o1, o2, o3, o4, p) == [text |-> FALSE, o |-> <<o1, o2, o3, o4>>, p |-> <<p>>]

RECURSIVE Pow2(_)
Pow2(n) == IF n = 0 THEN 1 ELSE 2 * Pow2(n - 1)

\* The low 24 bits of the address (the first octet is kept apart: the whole
\* address does not fit TLC's integers).
Low24(o) == o[2] * 65536 + o[3] * 256 + o[4]

\* The prefix length ip_network gives: /32 when the string has none.
PrefixLen(c) == IF Len(c.p) = 0 THEN 32 ELSE c.p[1]

\* No bit is set after the first p bits of the address.
NoHostBits(o, p) ==
    IF p >= 8 THEN Low24(o) % Pow2(32 - p) = 0
    ELSE Low24(o) = 0 /\ o[1] % Pow2(8 - p) = 0

\* ip_network(c) returns (does not raise ValueError)
Parses(c) ==
    /\ ~c.text
    /\ \A i \in 1..4 : c.o[i] \in 0..255
    /\ PrefixLen(c) \in 0..32
    /\ NoHostBits(c.o, PrefixLen(c))

\* The first p bits of address o, as <<first octet part, low part>>
NetBits(o, p) ==
    IF p >= 8 THEN <<o[1], Low24(o) \div Pow2(32 - p)>>
    ELSE <<o[1] \div Pow2(8 - p), 0>>

\* network `sub` lies inside network `net` (both parsed)
SubnetOf(sub, net) ==
    /\ PrefixLen(net) <= PrefixLen(sub)
    /\ NetBits(sub.o, PrefixLen(net)) = NetBits(net.o, PrefixLen(net))

-----------------------------------------------------------------------------
(* components/network/vpc.py *)

MinPrefixLen == 16
MaxPrefixLen == 24

\* The prefix check with the bounds excluded: prefixlen <= 16 or prefixlen >= 24
VPC_validate_inputs_Strict(name, cidr_block) ==
    IF Len(name) = 0 THEN <<"Name must be a non-empty string">>
    ELSE IF ~Parses(cidr_block) THEN <<"Invalid CIDR block", "does not parse">>
    ELSE IF PrefixLen(cidr_block) <= MinPrefixLen \/ PrefixLen(cidr_block) >= MaxPrefixLen
        THEN <<"Invalid CIDR block", "CIDR block must be between /16 and /24">>
    ELSE NoError

VPC_validate_inputs(name, cidr_block) ==
    IF Len(name) = 0 THEN <<"Name must be a non-empty string">>
    ELSE IF ~Parses(cidr_block) THEN <<"Invalid CIDR block", "does not parse">>
    ELSE IF PrefixLen(cidr_block) < MinPrefixLen \/ PrefixLen(cidr_block) > MaxPrefixLen
        THEN <<"Invalid CIDR block", "CIDR block must be between /16 and /24">>
    ELSE NoError

\* resource.attr of an earlier resource, an Output
Ref(resource_name, attr) == [ref |-> resource_name, attr |-> attr]

VPC_create_vpc(name, cidr_block) ==
    Resource("aws:ec2/vpc:Vpc", name \o <<"-vpc">>,
             <<[Owner |-> "Dijam", Project |-> "Numeris", CostCenter |-> "1234",
                Name |-> name \o <<"-vpc">>, Environment |-> <<stack>>,
                ManagedBy |-> "Pulumi"]>>,
             [cidr_block |-> cidr_block, enable_dns_hostnames |-> TRUE,
              enable_dns_support |-> TRUE])

\* Both subnets of a kind in the first zone
AZLetter_FirstZoneOnly(i) == "a"

\* Resource names that leave the loop index out
AZNumber_IndexDropped(i) == "1"

\* ['a', 'b'][i] and str(i + 1), for i in range(2)
AZLetter(i) == IF i = 0 THEN "a" ELSE "b"
AZNumber(i) == IF i = 0 THEN "1" ELSE "2"

VPC_public_subnet(name, aws_region, i) ==
    Resource("aws:ec2/subnet:Subnet",
             name \o <<"-public-subnet-az", AZNumber(i)>>,
             <<[Owner |-> "Dijam", Project |-> "Numeris", CostCenter |-> "1234",
                Name |-> name \o <<"-public-subnet-az", AZNumber(i)>>,
                Environment |-> <<stack>>, Type |-> "Public"]>>,
             [vpc_id |-> Ref(name \o <<"-vpc">>, "id"),
              cidr_block |-> Cidr(10, 0, i + 1, 0, 24),
              map_public_ip_on_launch |-> TRUE,
              availability_zone |-> <<aws_region, AZLetter(i)>>])

VPC_private_subnet(name, aws_region, i) ==
    Resource("aws:ec2/subnet:Subnet",
             name \o <<"-private-subnet-az", AZNumber(i)>>,
             <<[Owner |-> "Dijam", Project |-> "Numeris", CostCenter |-> "1234",
                Name |-> name \o <<"-private-subnet-az", AZNumber(i)>>,
                Environment |-> <<stack>>, Type |-> "Private"]>>,
             [vpc_id |-> Ref(name \o <<"-vpc">>, "id"),
              cidr_block |-> Cidr(10, 0, i + 3, 0, 24),
              map_public_ip_on_launch |-> FALSE,
              availability_zone |-> <<aws_region, AZLetter(i)>>])

\* public_subnets then private_subnets, each for i in range(2)
VPC_create_subnets(name, aws_region) ==
    << VPC_public_subnet(name, aws_region, 0), VPC_public_subnet(name, aws_region, 1),
       VPC_private_subnet(name, aws_region, 0), VPC_private_subnet(name, aws_region, 1) >>

VPC_create_internet_gateway(name) ==
    Resource("aws:ec2/internetGateway:InternetGateway", name \o <<"-igw">>,
             <<[Owner |-> "Dijam", Project |-> "Numeris", CostCenter |-> "1234",
                Name |-> name \o <<"-igw">>, Environment |-> <<stack>>,
                ManagedBy |-> "Pulumi"]>>,
             [vpc_id |-> Ref(name \o <<"-vpc">>, "id")])

\* the Elastic IP, then the NAT gateway in public_subnets[0]
VPC_create_nat_gateway(name) ==
    << Resource("aws:ec2/eip:Eip", name \o <<"-nat-eip">>, <<>>,
                [depends_on |-> <<name \o <<"-igw">>>>]),
       Resource("aws:ec2/natGateway:NatGateway", name \o <<"-nat-gw">>,
                <<[Owner |-> "Dijam", Project |-> "Numeris", CostCenter |-> "1234",
                   Name |-> name \o <<"-nat-gw">>, Environment |-> <<stack>>,
                   ManagedBy |-> "Pulumi"]>>,
                [allocation_id |-> Ref(name \o <<"-nat-eip">>, "id"),
                 subnet_id |-> Ref(name \o <<"-public-subnet-az", AZNumber(0)>>, "id")]) >>

VPC_create_route_tables(name) ==
    << Resource("aws:ec2/routeTable:RouteTable", name \o <<"-public-rt">>,
                <<[Owner |-> "Dijam", Project |-> "Numeris", CostCenter |-> "1234",
                   Name |-> name \o <<"-public-rt">>, Environment |-> <<stack>>,
                   Type |-> "Public"]>>,
                [vpc_id |-> Ref(name \o <<"-vpc">>, "id"),
                 routes |-> <<[cidr_block |-> "0.0.0.0/0",
                               gateway_id |-> Ref(name \o <<"-igw">>, "id")]>>]),
       Resource("aws:ec2/routeTable:RouteTable", name \o <<"-private-rt">>,
                <<[Owner |-> "Dijam", Project |-> "Numeris", CostCenter |-> "1234",
                   Name |-> name \o <<"-private-rt">>, Environment |-> <<stack>>,
                   Type |-> "Private"]>>,
                [vpc_id |-> Ref(name \o <<"-vpc">>, "id"),
                 routes |-> <<[cidr_block |-> "0.0.0.0/0",
                               nat_gateway_id |-> Ref(name \o <<"-nat-gw">>, "id")]>>]) >>

\* An association that puts every subnet on the public route table
VPC_rta_AllPublic(name, type, i) ==
    Resource("aws:ec2/routeTableAssociation:RouteTableAssociation",
             name \o <<"-" \o type \o "-rta-az", AZNumber(i)>>, <<>>,
             [subnet_id |-> Ref(name \o <<"-" \o type \o "-subnet-az", AZNumber(i)>>, "id"),
              route_table_id |-> Ref(name \o <<"-public-rt">>, "id")])

VPC_rta(name, type, i) ==
    Resource("aws:ec2/routeTableAssociation:RouteTableAssociation",
             name \o <<"-" \o type \o "-rta-az", AZNumber(i)>>, <<>>,
             [subnet_id |-> Ref(name \o <<"-" \o type \o "-subnet-az", AZNumber(i)>>, "id"),
              route_table_id |-> Ref(name \o <<"-" \o type \o "-rt">>, "id")])

VPC_associate_route_tables(name) ==
    << VPC_rta(name, "public", 0), VPC_rta(name, "public", 1),
       VPC_rta(name, "private", 0), VPC_rta(name, "private", 1) >>

\* An __init__ that creates the route tables before the gateways
VPC_resources_RouteTablesFirst(name, cidr_block, aws_region) ==
    <<VPC_create_vpc(name, cidr_block)>>
        \o VPC_create_subnets(name, aws_region)
        \o VPC_create_route_tables(name)
        \o <<VPC_create_internet_gateway(name)>>
        \o VPC_create_nat_gateway(name)
        \o VPC_associate_route_tables(name)

\* Everything __init__ submits after the component, in source order
VPC_resources(name, cidr_block, aws_region) ==
    <<VPC_create_vpc(name, cidr_block)>>
        \o VPC_create_subnets(name, aws_region)
        \o <<VPC_create_internet_gateway(name)>>
        \o VPC_create_nat_gateway(name)
        \o VPC_create_route_tables(name)
        \o VPC_associate_route_tables(name)

\* aws_region: <<>> when the aws:region setting is missing, else <<region>>
VPCInit(name, cidr_block, aws_region, fail) ==
    LET v == VPC_validate_inputs(name, cidr_block)
        comp == Component("custom:network:VPC", name)
        rs == VPC_resources(name, cidr_block, aws_region[1])
    IN /\ call' = [kind |-> "VPC",
                   args |-> [name |-> name, cidr_block |-> cidr_block,
                             aws_region |-> aws_region, fail |-> fail]]
       /\ IF Failed(v)
          THEN /\ result' = Raise("ValueError", v)
               /\ emitted' = <<>>
          ELSE IF Len(aws_region) = 0
          THEN /\ result' = Raise("Exception",
                                  <<"Failed to create VPC resources",
                                    "Missing required configuration variable 'aws:region'">>)
               /\ emitted' = <<comp>>
          ELSE IF Rejects(rs, fail)
          THEN /\ result' = Raise("Exception",
                                  <<"Failed to create VPC resources">> \o ProviderError.msg)
               /\ emitted' = <<comp>> \o Through(rs, fail)
          ELSE /\ result' = Returned
               /\ emitted' = <<comp>> \o rs
       /\ UNCHANGED <<stack, priority_counter>>

-----------------------------------------------------------------------------
(* components/storage/rds.py *)

RDS_validate_inputs(name, vpc_id, private_subnet_ids, db_name, username) ==
    IF IsOutput(vpc_id) THEN NoError
    ELSE IF Len(name) = 0 THEN <<"Name must be a non-empty string">>
    ELSE IF NotNonEmptyStr(vpc_id) THEN <<"VPC ID must be a non-empty string">>
    ELSE IF NotNonEmptyList(private_subnet_ids)
        THEN <<"Private subnet IDs must be a non-empty list">>
    ELSE IF NotNonEmptyStr(db_name) THEN <<"Database name must be a non-empty string">>
    ELSE IF NotNonEmptyStr(username) THEN <<"Username must be a non-empty string">>
    ELSE NoError

RDS_create_subnet_group(name, private_subnet_ids) ==
    Resource("aws:rds/subnetGroup:SubnetGroup", name \o <<"-rds-subnet-group">>,
             <<[Owner |-> "Dijam", Project |-> "Numeris", CostCenter |-> "1234",
                Name |-> name \o <<"-rds-subnet-group">>, Environment |-> <<stack>>]>>,
             [subnet_ids |-> private_subnet_ids])

\* An instance that takes the constructor's manage_master_user_password as given
RDS_create_db_instance_AsAsked(name, db_name, username, manage_master_user_password, backup_retention, security_group_id) ==
    Resource("aws:rds/instance:Instance", name \o <<"-rds-instance">>,
             <<[Owner |-> "Dijam", Project |-> "Numeris", CostCenter |-> "1234",
                Name |-> name \o <<"-rds-instance">>, Environment |-> <<stack>>,
                ManagedBy |-> "Pulumi"]>>,
             [engine |-> "postgres", engine_version |-> "14.12",
              instance_class |-> "db.t4g.micro", allocated_storage |-> 20,
              db_name |-> db_name, username |-> username,
              manage_master_user_password |-> manage_master_user_password,
              backup_retention_period |-> backup_retention,
              multi_az |-> FALSE, publicly_accessible |-> FALSE,
              vpc_security_group_ids |-> <<security_group_id>>,
              db_subnet_group_name |-> Ref(name \o <<"-rds-subnet-group">>, "name"),
              skip_final_snapshot |-> TRUE])

RDS_create_db_instance(name, db_name, username, manage_master_user_password, backup_retention, security_group_id) ==
    Resource("aws:rds/instance:Instance", name \o <<"-rds-instance">>,
             <<[Owner |-> "Dijam", Project |-> "Numeris", CostCenter |-> "1234",
                Name |-> name \o <<"-rds-instance">>, Environment |-> <<stack>>,
                ManagedBy |-> "Pulumi"]>>,
             [engine |-> "postgres", engine_version |-> "14.12",
              instance_class |-> "db.t4g.micro", allocated_storage |-> 20,
              db_name |-> db_name, username |-> username,
              manage_master_user_password |-> TRUE,
              backup_retention_period |-> backup_retention,
              multi_az |-> FALSE, publicly_accessible |-> FALSE,
              vpc_security_group_ids |-> <<security_group_id>>,
              db_subnet_group_name |-> Ref(name \o <<"-rds-subnet-group">>, "name"),
              skip_final_snapshot |-> TRUE])

\* backup_retention: int = 7 in the signature
DefaultBackupRetention == 7

\* A signature whose default keeps no backups
RDS_backup_retention_NoDefault(backup_retention) ==
    IF backup_retention = <<>> THEN 0 ELSE backup_retention[1]

\* The value of the parameter in the body: the argument, or the default when
\* the caller leaves it out
RDS_backup_retention(backup_retention) ==
    IF backup_retention = <<>> THEN DefaultBackupRetention ELSE backup_retention[1]

\* backup_retention is <<>> when the caller leaves the argument out, else <<n>>
RDSInit(name, vpc_id, private_subnet_ids, security_group_id, db_name, username, manage_master_user_password, backup_retention, fail) ==
    LET comp == Component("custom:storage:RDS", name)
        retention == RDS_backup_retention(backup_retention)
        v == RDS_validate_inputs(name, vpc_id, private_subnet_ids, db_name, username)
        rs == << RDS_create_subnet_group(name, private_subnet_ids),
                 RDS_create_db_instance(name, db_name, username,
                                        manage_master_user_password, retention,
                                        security_group_id) >>
    IN /\ call' = [kind |-> "RDS",
                   args |-> [name |-> name, vpc_id |-> vpc_id,
                             private_subnet_ids |-> private_subnet_ids,
                             security_group_id |-> security_group_id,
                             db_name |-> db_name, username |-> username,
                             manage_master_user_password |-> manage_master_user_password,
                             backup_retention |-> backup_retention, fail |-> fail]]
       /\ IF Failed(v)
          THEN \* except ValueError: raise
               /\ result' = Raise("ValueError", v)
               /\ emitted' = <<comp>>
          ELSE IF Rejects(rs, fail)
          THEN /\ result' = Raise("Exception",
                                  <<"Failed to create RDS resources">> \o ProviderError.msg)
               /\ emitted' = <<comp>> \o Through(rs, fail)
          ELSE /\ result' = Returned
               /\ emitted' = <<comp>> \o rs
       /\ UNCHANGED <<stack, priority_counter>>

-----------------------------------------------------------------------------
(* components/ec2/ec2.py *)

EC2_validate_inputs(name, ami, instance_type, subnet_id, security_group_ids) ==
    IF IsOutput(subnet_id) THEN NoError
    ELSE IF Len(name) = 0 THEN <<"Name must be a non-empty string">>
    ELSE IF ~ReMatchName(name)
        THEN <<"Name can only contain alphanumeric characters and hyphens">>
    ELSE IF NotNonEmptyStr(ami) THEN <<"AMI must be a non-empty string">>
    ELSE IF NotNonEmptyStr(instance_type)
        THEN <<"Instance type must be a non-empty string">>
    ELSE IF NotNonEmptyStr(subnet_id) THEN <<"Subnet ID must be a non-empty string">>
    ELSE IF NotNonEmptyList(security_group_ids)
        THEN <<"Security group IDs must be a non-empty list">>
    ELSE NoError

EC2_tags(name, tags) ==
    DictMerge([Name |-> name \o <<"-instance">>, Environment |-> <<stack>>,
               ManagedBy |-> "Pulumi"],
              OrEmpty(tags))

EC2_create_instance(name, ami, instance_type, subnet_id, security_group_ids, user_data, tags) ==
    Resource("aws:ec2/instance:Instance", name \o <<"-ec2-instance">>,
             <<EC2_tags(name, tags)>>,
             [ami |-> ami, instance_type |-> instance_type, subnet_id |-> subnet_id,
              vpc_security_group_ids |-> security_group_ids,
              user_data |-> user_data])

EC2InstanceInit(name, ami, instance_type, subnet_id, security_group_ids, user_data, tags, fail) ==
    LET v == EC2_validate_inputs(name, ami, instance_type, subnet_id, security_group_ids)
        comp == Component("custom:resource:EC2Instance", name)
        rs == <<EC2_create_instance(name, ami, instance_type, subnet_id,
                                    security_group_ids, user_data, tags)>>
    IN /\ call' = [kind |-> "EC2Instance",
                   args |-> [name |-> name, ami |-> ami,
                             instance_type |-> instance_type, subnet_id |-> subnet_id,
                             security_group_ids |-> security_group_ids,
                             user_data |-> user_data, tags |-> tags, fail |-> fail]]
       /\ IF Failed(v)
          THEN /\ result' = Raise("ValueError", v)
               /\ emitted' = <<>>
          ELSE IF Rejects(rs, fail)
          THEN /\ result' = Raise("Exception",
                                  <<"Failed to create EC2 Instance",
                                    "Failed to create EC2 Instance">> \o ProviderError.msg)
               /\ emitted' = <<comp>> \o Through(rs, fail)
          ELSE /\ result' = Returned
               /\ emitted' = <<comp>> \o rs
       /\ UNCHANGED <<stack, priority_counter>>

-----------------------------------------------------------------------------
(* components/ecs/cluster.py *)

ECSCluster_validate_inputs(name) ==
    IF Len(name) = 0 THEN <<"Name must be a non-empty string">>
    ELSE IF ~ReMatchName(name)
        THEN <<"Name can only contain alphanumeric characters and hyphens">>
    ELSE NoError

\* str(enable_container_insights)
StrBool(b) == IF b THEN "True" ELSE "False"

ECSCluster_create_cluster(name, enable_container_insights) ==
    Resource("aws:ecs/cluster:Cluster", name \o <<"-ecs-cluster">>,
             <<[Owner |-> "Dijam", Project |-> "Numeris", CostCenter |-> "1234",
                Name |-> name \o <<"-cluster">>, Environment |-> <<stack>>,
                ManagedBy |-> "Pulumi",
                ContainerInsights |-> StrBool(enable_container_insights)]>>,
             [name |-> name \o <<"-ecs-cluster">>])

ECSClusterInit(name, enable_container_insights, fail) ==
    LET v == ECSCluster_validate_inputs(name)
        comp == Component("custom:ecs:ECSCluster", name)
        rs == <<ECSCluster_create_cluster(name, enable_container_insights)>>
    IN /\ call' = [kind |-> "ECSCluster",
                   args |-> [name |-> name,
                             enable_container_insights |-> enable_container_insights,
                             fail |-> fail]]
       /\ IF Failed(v)
          THEN /\ result' = Raise("ValueError", v)
               /\ emitted' = <<>>
          ELSE IF Rejects(rs, fail)
          THEN /\ result' = Raise("Exception",
                                  <<"Failed to create ECS Cluster",
                                    "Failed to create ECS Cluster">> \o ProviderError.msg)
               /\ emitted' = <<comp>> \o Through(rs, fail)
          ELSE /\ result' = Returned
               /\ emitted' = <<comp>> \o rs
       /\ UNCHANGED <<stack, priority_counter>>

-----------------------------------------------------------------------------
(* components/ecs/service.py *)

PyInt(n) == [t |-> "int", v |-> n]
MaxPort == 65535

\* A validation that does not compare desired_count with max_count
ECSService_validate_inputs_NoUpperCheck(name, container_name, container_image, container_port, desired_count, min_count, max_count) ==
    IF ~ReMatchName(name)
        THEN <<"Name can only contain alphanumeric characters and hyphens">>
    ELSE IF Falsy(container_name) \/ Falsy(container_image)
        THEN <<"Container name and image are required">>
    ELSE IF container_port.v <= 0 \/ container_port.v > MaxPort
        THEN <<"Container port must be between 1 and 65535">>
    ELSE IF \/ min_count < 1
            \/ max_count < min_count
            \/ desired_count < min_count
        THEN <<"Invalid scaling configuration">>
    ELSE NoError

ECSService_validate_inputs(name, container_name, container_image, container_port, desired_count, min_count, max_count) ==
    IF ~ReMatchName(name)
        THEN <<"Name can only contain alphanumeric characters and hyphens">>
    ELSE IF Falsy(container_name) \/ Falsy(container_image)
        THEN <<"Container name and image are required">>
    ELSE IF container_port.v <= 0 \/ container_port.v > MaxPort
        THEN <<"Container port must be between 1 and 65535">>
    ELSE IF \/ min_count < 1
            \/ max_count < min_count
            \/ desired_count < min_count
            \/ desired_count > max_count
        THEN <<"Invalid scaling configuration">>
    ELSE NoError

\* _create_log_group: the log group it submits, if any
\* A service that creates its log group whether or not it was given one
ECSService_create_log_group_Always(name, log_group_name) ==
    << Resource("aws:cloudwatch/logGroup:LogGroup", name \o <<"-log-group">>,
                <<[Name |-> name \o <<"-log-group">>, Environment |-> <<stack>>]>>,
                [name |-> <<"/ecs/">> \o name, retention_in_days |-> 7,
                 parent |-> name]) >>

ECSService_create_log_group(name, log_group_name) ==
    IF Falsy(log_group_name)
    THEN << Resource("aws:cloudwatch/logGroup:LogGroup", name \o <<"-log-group">>,
                     <<[Name |-> name \o <<"-log-group">>, Environment |-> <<stack>>]>>,
                     [name |-> <<"/ecs/">> \o name, retention_in_days |-> 7,
                      parent |-> name]) >>
    ELSE <<>>

ECSService_log_group_name(name, log_group_name) ==
    IF Falsy(log_group_name)
    THEN [given |-> FALSE, name |-> "", ref |-> name \o <<"-log-group">>]
    ELSE [given |-> TRUE, name |-> log_group_name, ref |-> <<>>]

ECSService_create_task_definition(name, task_execution_role_arn, container_name, container_image, container_port, log_group_name) ==
    Resource("aws:ecs/taskDefinition:TaskDefinition", name \o <<"-task">>, <<>>,
             [family |-> name \o <<"-task">>, network_mode |-> "awsvpc",
              requires_compatibilities |-> <<"FARGATE">>,
              cpu |-> "256", memory |-> "512",
              execution_role_arn |-> task_execution_role_arn,
              runtime_platform |-> [cpuArchitecture |-> "ARM64",
                                    operatingSystemFamily |-> "LINUX"],
              container_definitions |->
                  <<[name |-> container_name, image |-> container_image,
                     essential |-> TRUE,
                     portMappings |-> <<[containerPort |-> container_port.v,
                                         hostPort |-> container_port.v,
                                         protocol |-> "tcp"]>>,
                     logGroup |-> ECSService_log_group_name(name, log_group_name)]>>,
              parent |-> name])

ECSService_create_ecs_service(name, cluster_arn, desired_count, subnets, security_group_id, target_group_arn, container_name, container_port) ==
    Resource("aws:ecs/service:Service", name \o <<"-service">>,
             <<[Name |-> name \o <<"-service">>, Environment |-> <<stack>>]>>,
             [cluster |-> cluster_arn, desired_count |-> desired_count,
              launch_type |-> "FARGATE",
              task_definition |-> Ref(name \o <<"-task">>, "arn"),
              network_configuration |->
                  [assignPublicIp |-> FALSE, subnets |-> subnets,
                   securityGroups |-> <<security_group_id>>],
              load_balancers |-> <<[targetGroupArn |-> target_group_arn,
                                    containerName |-> container_name,
                                    containerPort |-> container_port.v]>>,
              parent |-> name])

ECSService_scaling_policy(name, which, metric) ==
    Resource("aws:appautoscaling/policy:Policy",
             name \o <<"-" \o which \o "-scaling-policy">>, <<>>,
             [policy_type |-> "TargetTrackingScaling",
              resource_id |-> Ref(name \o <<"-scalable-target">>, "resource_id"),
              scalable_dimension |-> "ecs:service:DesiredCount",
              service_namespace |-> "ecs",
              targetValue |-> 50, predefinedMetricType |-> metric,
              scaleInCooldown |-> 60, scaleOutCooldown |-> 60,
              parent |-> name])

ECSService_configure_auto_scaling(name, min_count, max_count) ==
    << Resource("aws:appautoscaling/target:Target", name \o <<"-scalable-target">>, <<>>,
                [service_namespace |-> "ecs",
                 scalable_dimension |-> "ecs:service:DesiredCount",
                 min_capacity |-> min_count, max_capacity |-> max_count,
                 parent |-> name]),
       ECSService_scaling_policy(name, "cpu", "ECSServiceAverageCPUUtilization"),
       ECSService_scaling_policy(name, "memory", "ECSServiceAverageMemoryUtilization") >>

ECSServiceInit(name, cluster_arn, task_execution_role_arn, target_group_arn, container_name, container_image, container_port, security_group_id, desired_count, min_count, max_count, subnets, log_group_name, fail) ==
    LET v == ECSService_validate_inputs(name, container_name, container_image,
                                        container_port, desired_count, min_count,
                                        max_count)
        comp == Component("custom:ecs:ECSService", name)
        before == ECSService_create_log_group(name, log_group_name)
                    \o << ECSService_create_task_definition(
                              name, task_execution_role_arn, container_name,
                              container_image, container_port, log_group_name),
                          ECSService_create_ecs_service(
                              name, cluster_arn, desired_count, subnets,
                              security_group_id, target_group_arn, container_name,
                              container_port) >>
        rs == before \o ECSService_configure_auto_scaling(name, min_count, max_count)
    IN /\ call' = [kind |-> "ECSService",
                   args |-> [name |-> name, cluster_arn |-> cluster_arn,
                             task_execution_role_arn |-> task_execution_role_arn,
                             target_group_arn |-> target_group_arn,
                             container_name |-> container_name,
                             container_image |-> container_image,
                             container_port |-> container_port,
                             security_group_id |-> security_group_id,
                             desired_count |-> desired_count, min_count |-> min_count,
                             max_count |-> max_count, subnets |-> subnets,
                             log_group_name |-> log_group_name, fail |-> fail]]
       /\ IF Failed(v)
          THEN /\ result' = Raise("ValueError", v)
               /\ emitted' = <<>>
          ELSE IF Rejects(rs, fail)
          THEN /\ result' =
                    Raise("Exception",
                          <<"Failed to create ECS Service">>
                            \o (IF fail > Len(before)
                                THEN <<"Error creating auto scaling policies">>
                                ELSE <<>>)
                            \o ProviderError.msg)
               /\ emitted' = <<comp>> \o Through(rs, fail)
          ELSE /\ result' = Returned
               /\ emitted' = <<comp>> \o rs
       /\ UNCHANGED <<stack, priority_counter>>

-----------------------------------------------------------------------------
(* components/lb/alb.py *)

ALB_validate_inputs(vpc_id, subnets, certificate_arn, alb_security_group_id) ==
    IF IsOutput(vpc_id) THEN NoError
    ELSE IF NotNonEmptyStr(vpc_id) THEN <<"VPC ID must be a non-empty string">>
    ELSE IF NotNonEmptyList(subnets) \/ Len(subnets.v) < 2
        THEN <<"At least two subnets are required">>
    ELSE IF NotNonEmptyStr(certificate_arn)
        THEN <<"Certificate ARN must be a non-empty string">>
    ELSE IF NotNonEmptyStr(alb_security_group_id)
        THEN <<"Security Group ID must be a non-empty string">>
    ELSE NoError

ALB_create_load_balancer(name, subnets, alb_security_group_id) ==
    Resource("aws:lb/loadBalancer:LoadBalancer", name \o <<"-alb">>,
             <<[Name |-> name \o <<"-alb">>, Environment |-> <<stack>>,
                ManagedBy |-> "Pulumi"]>>,
             [internal |-> FALSE, load_balancer_type |-> "application",
              security_groups |-> <<alb_security_group_id>>, subnets |-> subnets,
              enable_deletion_protection |-> FALSE])

ALB_create_https_listener(name, certificate_arn) ==
    Resource("aws:lb/listener:Listener", name \o <<"-https-listener">>, <<>>,
             [load_balancer_arn |-> Ref(name \o <<"-alb">>, "arn"),
              port |-> 443, protocol |-> "HTTPS",
              ssl_policy |-> "ELBSecurityPolicy-TLS13-1-2-2021-06",
              certificate_arn |-> certificate_arn,
              default_actions |-> <<[type |-> "fixed-response",
                                     status_code |-> "200"]>>])

\* An HTTP listener that redirects with a temporary redirect
ALB_create_http_listener_Temporary(name) ==
    Resource("aws:lb/listener:Listener", name \o <<"-http-listener">>, <<>>,
             [load_balancer_arn |-> Ref(name \o <<"-alb">>, "arn"),
              port |-> 80, protocol |-> "HTTP",
              default_actions |-> <<[type |-> "redirect", port |-> "443",
                                     protocol |-> "HTTPS",
                                     status_code |-> "HTTP_302"]>>])

ALB_create_http_listener(name) ==
    Resource("aws:lb/listener:Listener", name \o <<"-http-listener">>, <<>>,
             [load_balancer_arn |-> Ref(name \o <<"-alb">>, "arn"),
              port |-> 80, protocol |-> "HTTP",
              default_actions |-> <<[type |-> "redirect", port |-> "443",
                                     protocol |-> "HTTPS",
                                     status_code |-> "HTTP_301"]>>])

ALB_stage(i) ==
    CASE i = 1 -> "Failed to create load balancer"
      [] i = 2 -> "Failed to create HTTPS listener"
      [] OTHER -> "Failed to create HTTP listener"

ApplicationLoadBalancerInit(name, vpc_id, subnets, certificate_arn, alb_security_group_id, fail) ==
    LET comp == Component("custom:network:ApplicationLoadBalancer", name)
        v == ALB_validate_inputs(vpc_id, subnets, certificate_arn, alb_security_group_id)
        rs == << ALB_create_load_balancer(name, subnets, alb_security_group_id),
                 ALB_create_https_listener(name, certificate_arn),
                 ALB_create_http_listener(name) >>
    IN /\ call' = [kind |-> "ApplicationLoadBalancer",
                   args |-> [name |-> name, vpc_id |-> vpc_id, subnets |-> subnets,
                             certificate_arn |-> certificate_arn,
                             alb_security_group_id |-> alb_security_group_id,
                             fail |-> fail]]
       /\ IF Failed(v)
          THEN \* the ValueError is raised inside the try and leaves wrapped
               /\ result' = Raise("Exception",
                                  <<"Failed to create Application Load Balancer">> \o v)
               /\ emitted' = <<comp>>
          ELSE IF Rejects(rs, fail)
          THEN /\ result' = Raise("Exception",
                                  <<"Failed to create Application Load Balancer",
                                    ALB_stage(fail)>> \o ProviderError.msg)
               /\ emitted' = <<comp>> \o Through(rs, fail)
          ELSE /\ result' = Returned
               /\ emitted' = <<comp>> \o rs
       /\ UNCHANGED <<stack, priority_counter>>

-----------------------------------------------------------------------------
(* components/lb/tg.py *)

TG_validate_inputs(listener_arn, vpc_id, host_condition, subnets, container_port) ==
    IF IsOutput(vpc_id) THEN NoError
    ELSE IF NotNonEmptyStr(listener_arn) THEN <<"Listener ARN must be a non-empty string">>
    ELSE IF NotNonEmptyStr(vpc_id) THEN <<"VPC ID must be a non-empty string">>
    ELSE IF NotNonEmptyStr(host_condition)
        THEN <<"Host condition must be a non-empty string">>
    ELSE IF NotNonEmptyList(subnets) THEN <<"Subnets must be a non-empty list">>
    ELSE IF \/ container_port.t # "int"
            \/ container_port.v <= 0
            \/ container_port.v > MaxPort
        THEN <<"Container port must be a valid port number">>
    ELSE NoError

TG_create_target_group(name, vpc_id, container_port) ==
    Resource("aws:lb/targetGroup:TargetGroup", name \o <<"-tg">>,
             <<[Owner |-> "Dijam", Project |-> "Numeris", CostCenter |-> "1234",
                Name |-> name \o <<"-tg">>, Environment |-> <<stack>>,
                ManagedBy |-> "Pulumi"]>>,
             [port |-> container_port, protocol |-> "HTTP", vpc_id |-> vpc_id,
              target_type |-> "ip",
              health_check |-> [path |-> "/", interval |-> 30, timeout |-> 5,
                                healthy_threshold |-> 3, unhealthy_threshold |-> 3]])

\* The rule with a fixed priority instead of the counter's value
TG_create_listener_rule_PriorityOne(name, listener_arn, host_condition, priority) ==
    Resource("aws:lb/listenerRule:ListenerRule", name \o <<"-listener-rule">>, <<>>,
             [listener_arn |-> listener_arn, priority |-> 1,
              conditions |-> <<[host_header |-> <<host_condition>>]>>,
              actions |-> <<[type |-> "forward",
                             target_group_arn |-> Ref(name \o <<"-tg">>, "arn")]>>,
              parent |-> name])

TG_create_listener_rule(name, listener_arn, host_condition, priority) ==
    Resource("aws:lb/listenerRule:ListenerRule", name \o <<"-listener-rule">>, <<>>,
             [listener_arn |-> listener_arn, priority |-> priority,
              conditions |-> <<[host_header |-> <<host_condition>>]>>,
              actions |-> <<[type |-> "forward",
                             target_group_arn |-> Ref(name \o <<"-tg">>, "arn")]>>,
              parent |-> name])

HostBasedALBTargetGroupInit(name, listener_arn, vpc_id, host_condition, subnets, container_port, fail) ==
    LET comp == Component("custom:network:HostBasedALBTargetGroup", name)
        v == TG_validate_inputs(listener_arn, vpc_id, host_condition, subnets,
                                container_port)
        \* priority = HostBasedALBTargetGroup._priority_counter
        priority == priority_counter
        rs == << TG_create_target_group(name, vpc_id, container_port),
                 TG_create_listener_rule(name, listener_arn, host_condition, priority) >>
    IN /\ call' = [kind |-> "HostBasedALBTargetGroup",
                   args |-> [name |-> name, listener_arn |-> listener_arn,
                             vpc_id |-> vpc_id, host_condition |-> host_condition,
                             subnets |-> subnets, container_port |-> container_port,
                             fail |-> fail]]
       /\ IF Failed(v)
          THEN /\ result' = Raise("Exception",
                                  <<"Failed to create Host-Based ALB Target Group">> \o v)
               /\ emitted' = <<comp>>
               /\ UNCHANGED priority_counter
          ELSE IF fail = 1
          THEN /\ result' = Raise("Exception",
                                  <<"Failed to create Host-Based ALB Target Group",
                                    "Failed to create target group">> \o ProviderError.msg)
               /\ emitted' = <<comp>>
               /\ UNCHANGED priority_counter
          ELSE \* _create_listener_rule is entered: the counter is read and
               \* incremented before the rule is submitted
               /\ priority_counter' = priority_counter + 1
               /\ IF fail = 2
                  THEN /\ result' =
                            Raise("Exception",
                                  <<"Failed to create Host-Based ALB Target Group",
                                    "Failed to create listener rule">> \o ProviderError.msg)
                       /\ emitted' = <<comp>> \o Through(rs, fail)
                  ELSE /\ result' = Returned
                       /\ emitted' = <<comp>> \o rs
       /\ UNCHANGED stack

-----------------------------------------------------------------------------
(* components/certificate/acm.py *)

\* [a-z0-9] under re.IGNORECASE: the characters the inputs are drawn from and
\* the letters of the domain __main__ passes
AlnumAtoms == {"a", "Z", "7", "d", "i", "j", "m", "o", "n", "l", "e"}
MaxLabelLen == 63

\* [a-z0-9](?:[a-z0-9-]{0,61}[a-z0-9])? on s[lo..hi], re.IGNORECASE
LabelOK(s, lo, hi) ==
    /\ lo <= hi
    /\ hi - lo + 1 <= MaxLabelLen
    /\ s[lo] \in AlnumAtoms
    /\ s[hi] \in AlnumAtoms
    /\ \A i \in lo..hi : s[i] \in AlnumAtoms \cup {"-"}

\* re.match(r'^(?:[a-z0-9](?:[a-z0-9-]{0,61}[a-z0-9])?\.)+
\*            [a-z0-9][a-z0-9-]{0,61}[a-z0-9]$', domain_name, re.IGNORECASE)
ReMatchDomain(d) ==
    LET s == IF Len(d) > 0 /\ d[Len(d)] = "\n" THEN SubSeq(d, 1, Len(d) - 1) ELSE d
        dots == {i \in 1..Len(s) : s[i] = "."}
        \* where the label that ends just before position e starts
        start(e) == IF \E j \in dots : j < e
                    THEN (CHOOSE j \in dots : j < e /\ \A k \in dots : k < e => k <= j) + 1
                    ELSE 1
    IN /\ dots # {}
       /\ \A e \in dots : LabelOK(s, start(e), e - 1)
       /\ LabelOK(s, start(Len(s) + 1), Len(s))
       /\ Len(s) - start(Len(s) + 1) + 1 >= 2

SSL_validate_inputs(name, domain_name) ==
    IF Len(name) = 0 THEN <<"Name must be a non-empty string">>
    ELSE IF Len(domain_name) = 0 THEN <<"Domain name must be a non-empty string">>
    ELSE IF ~ReMatchDomain(domain_name) THEN <<"Invalid domain name format">>
    ELSE NoError

\* A certificate that lists the www name whatever include_www says
SSL_create_certificate_AlwaysWww(name, domain_name, include_www) ==
    Resource("aws:acm/certificate:Certificate", name \o <<"-cert">>,
             <<[Owner |-> "Dijam", Project |-> "Numeris", CostCenter |-> "1234",
                Name |-> name \o <<"-cert">>, Environment |-> <<stack>>,
                ManagedBy |-> "Pulumi", Domain |-> domain_name]>>,
             [domain_name |-> domain_name, validation_method |-> "DNS",
              subject_alternative_names |-> <<domain_name, <<"www.">> \o domain_name>>])

SSL_create_certificate(name, domain_name, include_www) ==
    Resource("aws:acm/certificate:Certificate", name \o <<"-cert">>,
             <<[Owner |-> "Dijam", Project |-> "Numeris", CostCenter |-> "1234",
                Name |-> name \o <<"-cert">>, Environment |-> <<stack>>,
                ManagedBy |-> "Pulumi", Domain |-> domain_name]>>,
             [domain_name |-> domain_name, validation_method |-> "DNS",
              subject_alternative_names |->
                  <<domain_name>>
                    \o (IF include_www THEN << <<"www.">> \o domain_name >> ELSE <<>>)])

SSLCertificateInit(name, domain_name, include_www, fail) ==
    LET v == SSL_validate_inputs(name, domain_name)
        comp == Component("custom:network:SSLCertificate", name)
        rs == <<SSL_create_certificate(name, domain_name, include_www)>>
    IN /\ call' = [kind |-> "SSLCertificate",
                   args |-> [name |-> name, domain_name |-> domain_name,
                             include_www |-> include_www, fail |-> fail]]
       /\ IF Failed(v)
          THEN /\ result' = Raise("ValueError", v)
               /\ emitted' = <<>>
          ELSE IF Rejects(rs, fail)
          THEN /\ result' = Raise("Exception",
                                  <<"Failed to create SSL Certificate",
                                    "Failed to create SSL Certificate">> \o ProviderError.msg)
               /\ emitted' = <<comp>> \o Through(rs, fail)
          ELSE /\ result' = Returned
               /\ emitted' = <<comp>> \o rs
       /\ UNCHANGED <<stack, priority_counter>>

-----------------------------------------------------------------------------
(* components/iam/policy.py, components/iam/roles.py *)

\* A policy document is one of: NONE, "{}" (the empty dict), "doc" (a dict
\* json.dumps accepts) or "unserialisable" (a dict json.dumps raises TypeError on).
IAM_validate_document(document, what) ==
    IF document \in {NONE, "{}"} THEN <<what \o " must be a non-empty dictionary">>
    ELSE IF document = "unserialisable"
        THEN <<"Invalid " \o what \o " structure">>
    ELSE NoError

IAMPolicy_create_policy(name, policy_document) ==
    Resource("aws:iam/policy:Policy", name \o <<"-policy">>,
             <<[Name |-> name \o <<"-policy">>, Environment |-> <<stack>>,
                ManagedBy |-> "Pulumi"]>>,
             [policy |-> policy_document])

IAMPolicyInit(name, policy_document, fail) ==
    LET comp == Component("custom:iam:IAMPolicy", name)
        v == IAM_validate_document(policy_document, "Policy document")
        rs == <<IAMPolicy_create_policy(name, policy_document)>>
    IN /\ call' = [kind |-> "IAMPolicy",
                   args |-> [name |-> name, policy_document |-> policy_document,
                             fail |-> fail]]
       /\ IF Failed(v)
          THEN /\ result' = Raise("Exception", <<"Failed to create IAM Policy">> \o v)
               /\ emitted' = <<comp>>
          ELSE IF Rejects(rs, fail)
          THEN /\ result' = Raise("Exception",
                                  <<"Failed to create IAM Policy",
                                    "Failed to create IAM Policy">> \o ProviderError.msg)
               /\ emitted' = <<comp>> \o Through(rs, fail)
          ELSE /\ result' = Returned
               /\ emitted' = <<comp>> \o rs
       /\ UNCHANGED <<stack, priority_counter>>

IAMRole_create_role(name, assume_role_policy) ==
    Resource("aws:iam/role:Role", name \o <<"-role">>,
             <<[Owner |-> "Dijam", Project |-> "Numeris", CostCenter |-> "1234",
                Name |-> name \o <<"-role">>, Environment |-> <<stack>>,
                ManagedBy |-> "Pulumi"]>>,
             [assume_role_policy |-> assume_role_policy])

\* `... if policy_arn else None`: the attachment it submits, if any
IAMRole_attach_policy(name, policy_arn) ==
    IF Falsy(policy_arn) THEN <<>>
    ELSE << Resource("aws:iam/rolePolicyAttachment:RolePolicyAttachment",
                     name \o <<"-policy-attachment">>, <<>>,
                     [role |-> Ref(name \o <<"-role">>, "name"),
                      policy_arn |-> policy_arn]) >>

IAMRole_stage(i) ==
    IF i = 1 THEN "Failed to create IAM Role" ELSE "Failed to attach policy to role"

IAMRoleInit(name, assume_role_policy, policy_arn, fail) ==
    LET comp == Component("custom:iam:IAMRole", name)
        v == IAM_validate_document(assume_role_policy, "Assume role policy")
        rs == <<IAMRole_create_role(name, assume_role_policy)>>
                \o IAMRole_attach_policy(name, policy_arn)
    IN /\ call' = [kind |-> "IAMRole",
                   args |-> [name |-> name, assume_role_policy |-> assume_role_policy,
                             policy_arn |-> policy_arn, fail |-> fail]]
       /\ IF Failed(v)
          THEN /\ result' = Raise("Exception", <<"Failed to create IAM Role">> \o v)
               /\ emitted' = <<comp>>
          ELSE IF Rejects(rs, fail)
          THEN /\ result' = Raise("Exception",
                                  <<"Failed to create IAM Role", IAMRole_stage(fail)>>
                                    \o ProviderError.msg)
               /\ emitted' = <<comp>> \o Through(rs, fail)
          ELSE /\ result' = Returned
               /\ emitted' = <<comp>> \o rs
       /\ UNCHANGED <<stack, priority_counter>>

-----------------------------------------------------------------------------
(* components/secret/secret.py *)

DBSecretInit(name, username, password, fail) ==
    LET comp == Component("custom:secrets:DBSecret", name)
        rs == << Resource("aws:secretsmanager/secret:Secret",
                          name \o <<"-db-credentials">>,
                          <<[Name |-> name \o <<"-db-credentials">>,
                             Environment |-> <<stack>>]>>,
                          [description |-> "Database credentials for RDS",
                           secret_string |-> [username |-> username,
                                              password |-> password]]) >>
    IN /\ call' = [kind |-> "DBSecret",
                   args |-> [name |-> name, username |-> username,
                             password |-> password, fail |-> fail]]
       /\ IF Rejects(rs, fail)
          THEN \* no try/except: the provider's exception leaves as it is
               /\ result' = ProviderError
               /\ emitted' = <<comp>> \o Through(rs, fail)
          ELSE /\ result' = Returned
               /\ emitted' = <<comp>> \o rs
       /\ UNCHANGED <<stack, priority_counter>>

-----------------------------------------------------------------------------
(* Inputs *)

\* a stack name may hold letters, digits, hyphens, underscores and periods
Stacks == {"dev", "prod", "qa_1"}
NameChars == {"a", "-", "_", "\n"}
Names == SeqsUpTo(NameChars, MaxNameLen)
GoodName == <<"a", "-">>
Ids(prefix) == {OUTPUT, NONE, "", prefix}

RuleDicts ==
    { [k \in ks |-> CASE k = "protocol" -> "udp"
                      [] k = "from_port" -> 80
                      [] k = "to_port" -> 443
                      [] k = "security_group_id" -> "sg-peer"
                      [] k = "cidr_block" -> "0.0.0.0/0"] :
        ks \in { s \in SUBSET {"protocol", "from_port", "to_port",
                               "security_group_id", "cidr_block"} :
                    \/ {"from_port", "to_port"} \subseteq s
                    \/ s = {"cidr_block"} } }
Rules == {[t |-> "dict", d |-> d] : d \in RuleDicts}
            \cup {[t |-> "str", d |-> EmptyDict]}
IngressLists == SeqsUpTo(Rules, MaxRules)
AllowAll == [t |-> "dict",
             d |-> [protocol |-> "-1", from_port |-> 0, to_port |-> 0,
                    cidr_blocks |-> <<"0.0.0.0/0">>]]
EgressLists == {<<>>, <<AllowAll>>}
CidrRule == [t |-> "dict",
             d |-> [protocol |-> "tcp", from_port |-> 443, to_port |-> 443,
                    cidr_block |-> "0.0.0.0/0"]]
CallerTags ==
    {<<>>, <<EmptyDict>>,
     <<[Name |-> <<"x">>]>>,
     <<[Owner |-> "Ops", Team |-> "search"]>>,
     <<[Environment |-> <<"qa">>, ManagedBy |-> "hand"]>>}

PrefixMargin == 2
Octets1 == {10, 192, 256}
Octets2 == {0, 128}
Octets3 == {0, 2, 4, 128}
Octets4 == {0, 1}
Prefixes == {<<>>, <<33>>}
              \cup {<<p>> : p \in (MinPrefixLen - PrefixMargin)..(MaxPrefixLen + PrefixMargin)}
Cidrs == {[text |-> FALSE, o |-> <<o1, o2, o3, o4>>, p |-> p] :
              o1 \in Octets1, o2 \in Octets2, o3 \in Octets3, o4 \in Octets4,
              p \in Prefixes}
            \cup {[text |-> TRUE, o |-> <<0, 0, 0, 0>>, p |-> <<>>]}
DefaultCidr == Cidr(10, 0, 0, 0, 16)
Regions == {<<>>, <<"us-east-1">>}

SubnetLists == {PyListOutput, PyList(<<>>), PyList(<<"subnet-1">>),
                PyList(<<"subnet-1", "subnet-2">>)}
TwoSubnets == PyList(<<"subnet-1", "subnet-2">>)
SGIdLists == {PyListOutput, PyList(<<>>), PyList(<<"sg-1">>)}
Ports == {PyInt(-1), PyInt(0), PyInt(1), PyInt(80), PyInt(MaxPort), PyInt(MaxPort + 1)}
NotAnInt == [t |-> "str", v |-> 0]
MaxCount == 3
Counts == 0..MaxCount
MaxDomainLen == 4
DomainChars == {"a", "-", "."}
Domains == SeqsUpTo(DomainChars, MaxDomainLen)
GoodDomain == <<"a", ".", "a", "a">>
Documents == {NONE, "{}", "doc", "unserialisable"}
MaxPriority == 2

-----------------------------------------------------------------------------

\* pulumi.Config values: each is <<>> when unset
NoConfig == [region |-> <<>>, vpcCidr |-> <<>>, dbName |-> <<>>, backupRetention |-> <<>>]

Init ==
    /\ stack \in Stacks
    /\ call = [kind |-> "none", args |-> EmptyDict]
    /\ result = Returned
    /\ emitted = <<>>
    /\ priority_counter = 1
    /\ config = NoConfig
    /\ pc = 0
    /\ log = <<>>
    /\ threads = <<>>

\* No call is in progress: the program is between two declarations.
Idle == call.kind = "none"

\* The constructor returned and the program moves on to its next statement; an
\* exception is not caught anywhere, so a call that raised ends the program.
Continue ==
    /\ ~Idle
    /\ result.status = "ok"
    /\ call' = [kind |-> "none", args |-> EmptyDict]
    /\ result' = Returned
    /\ emitted' = <<>>
    /\ UNCHANGED <<stack, priority_counter>>
    /\ UNCHANGED main_vars

\* The calls of each declaration vary its arguments around a call that
\* succeeds: the name against every reference argument, the other arguments
\* under a good name, and the provider's rejection of each submission.

VPCCalls ==
    {[name |-> n, cidr_block |-> DefaultCidr, aws_region |-> r, fail |-> 0] :
        n \in Names, r \in Regions}
    \cup {[name |-> GoodName, cidr_block |-> c, aws_region |-> r, fail |-> 0] :
        c \in Cidrs, r \in Regions}
    \cup {[name |-> GoodName, cidr_block |-> DefaultCidr,
           aws_region |-> <<"us-east-1">>, fail |-> f] : f \in 0..14}

DeclareVPC ==
    /\ Idle
    /\ UNCHANGED main_vars
    /\ \E a \in VPCCalls : VPCInit(a.name, a.cidr_block, a.aws_region, a.fail)

SecurityGroupCalls ==
    {[name |-> n, vpc_id |-> v, ingress |-> i, egress |-> e, tags |-> <<>>,
      fail |-> 0] :
        n \in Names, v \in Ids("vpc-1"), i \in {<<>>, <<CidrRule>>},
        e \in EgressLists}
    \cup {[name |-> GoodName, vpc_id |-> v, ingress |-> i, egress |-> <<AllowAll>>,
           tags |-> <<>>, fail |-> 0] :
        v \in {OUTPUT, "vpc-1"}, i \in IngressLists}
    \cup {[name |-> GoodName, vpc_id |-> v, ingress |-> <<CidrRule>>,
           egress |-> <<AllowAll>>, tags |-> t, fail |-> f] :
        v \in {OUTPUT, "vpc-1"}, t \in CallerTags, f \in 0..1}

DeclareSecurityGroup ==
    /\ Idle
    /\ UNCHANGED main_vars
    /\ \E a \in SecurityGroupCalls :
        SecurityGroupInit(a.name, a.vpc_id, a.ingress, a.egress, a.tags, a.fail)

RDSCalls ==
    {[name |-> n, vpc_id |-> v, private_subnet_ids |-> TwoSubnets,
      db_name |-> "mydatabase", username |-> "admin", manage |-> TRUE,
      backup_retention |-> <<>>, fail |-> 0] :
        n \in Names, v \in Ids("vpc-1")}
    \cup {[name |-> GoodName, vpc_id |-> v, private_subnet_ids |-> l,
           db_name |-> d, username |-> u, manage |-> m, backup_retention |-> b,
           fail |-> 0] :
        v \in Ids("vpc-1"), l \in SubnetLists, d \in {"", "mydatabase"},
        u \in {"", "admin"}, m \in BOOLEAN, b \in {<<>>, <<14>>}}
    \cup {[name |-> GoodName, vpc_id |-> OUTPUT, private_subnet_ids |-> PyListOutput,
           db_name |-> "mydatabase", username |-> "admin", manage |-> TRUE,
           backup_retention |-> <<>>, fail |-> f] : f \in 0..2}

DeclareRDS ==
    /\ Idle
    /\ UNCHANGED main_vars
    /\ \E a \in RDSCalls :
        RDSInit(a.name, a.vpc_id, a.private_subnet_ids, OUTPUT, a.db_name,
                a.username, a.manage, a.backup_retention, a.fail)

EC2InstanceCalls ==
    {[name |-> n, ami |-> "ami-1", instance_type |-> "t2.micro", subnet_id |-> s,
      security_group_ids |-> PyList(<<"sg-1">>), tags |-> <<>>, fail |-> 0] :
        n \in Names, s \in Ids("subnet-1")}
    \cup {[name |-> GoodName, ami |-> a, instance_type |-> i, subnet_id |-> s,
           security_group_ids |-> g, tags |-> <<>>, fail |-> 0] :
        a \in {"", "ami-1"}, i \in {"", "t2.micro"}, s \in Ids("subnet-1"),
        g \in SGIdLists}
    \cup {[name |-> GoodName, ami |-> "ami-1", instance_type |-> "t2.micro",
           subnet_id |-> s, security_group_ids |-> PyList(<<"sg-1">>),
           tags |-> t, fail |-> f] :
        s \in {OUTPUT, "subnet-1"}, t \in CallerTags, f \in 0..1}

DeclareEC2Instance ==
    /\ Idle
    /\ UNCHANGED main_vars
    /\ \E a \in EC2InstanceCalls, user_data \in {NONE, "#!/bin/bash"} :
        EC2InstanceInit(a.name, a.ami, a.instance_type, a.subnet_id,
                        a.security_group_ids, user_data, a.tags, a.fail)

DeclareECSCluster ==
    /\ Idle
    /\ UNCHANGED main_vars
    /\ \E name \in Names, enable_container_insights \in BOOLEAN, fail \in 0..1 :
        ECSClusterInit(name, enable_container_insights, fail)

ECSServiceCalls ==
    {[name |-> n, container_name |-> "nginx", container_image |-> "nginx:latest",
      container_port |-> p, desired_count |-> 1, min_count |-> 1,
      max_count |-> MaxCount, log_group_name |-> NONE, fail |-> 0] :
        n \in Names, p \in Ports}
    \cup {[name |-> GoodName, container_name |-> c, container_image |-> i,
           container_port |-> p, desired_count |-> d, min_count |-> lo,
           max_count |-> hi, log_group_name |-> NONE, fail |-> 0] :
        c \in {"", "nginx"}, i \in {"", "nginx:latest"},
        p \in {PyInt(0), PyInt(80)}, d \in Counts, lo \in Counts, hi \in Counts}
    \cup {[name |-> GoodName, container_name |-> "nginx",
           container_image |-> "nginx:latest", container_port |-> PyInt(80),
           desired_count |-> 1, min_count |-> 1, max_count |-> MaxCount,
           log_group_name |-> l, fail |-> f] :
        l \in {NONE, "", "/ecs/mine"}, f \in 0..6}

DeclareECSService ==
    /\ Idle
    /\ UNCHANGED main_vars
    /\ \E a \in ECSServiceCalls, security_group_id \in {OUTPUT, "sg-1"} :
        ECSServiceInit(a.name, OUTPUT, OUTPUT, OUTPUT, a.container_name,
                       a.container_image, a.container_port, security_group_id,
                       a.desired_count, a.min_count, a.max_count, PyListOutput,
                       a.log_group_name, a.fail)

ApplicationLoadBalancerCalls ==
    {[name |-> n, vpc_id |-> v, subnets |-> TwoSubnets,
      certificate_arn |-> "arn:cert", alb_security_group_id |-> "sg-1",
      fail |-> 0] :
        n \in Names, v \in Ids("vpc-1")}
    \cup {[name |-> GoodName, vpc_id |-> v, subnets |-> l, certificate_arn |-> c,
           alb_security_group_id |-> g, fail |-> 0] :
        v \in Ids("vpc-1"), l \in SubnetLists, c \in Ids("arn:cert"),
        g \in Ids("sg-1")}
    \cup {[name |-> GoodName, vpc_id |-> OUTPUT, subnets |-> PyListOutput,
           certificate_arn |-> OUTPUT, alb_security_group_id |-> OUTPUT,
           fail |-> f] : f \in 0..3}

DeclareApplicationLoadBalancer ==
    /\ Idle
    /\ UNCHANGED main_vars
    /\ \E a \in ApplicationLoadBalancerCalls :
        ApplicationLoadBalancerInit(a.name, a.vpc_id, a.subnets, a.certificate_arn,
                                    a.alb_security_group_id, a.fail)

HostBasedALBTargetGroupCalls ==
    {[name |-> n, listener_arn |-> "arn:listener", vpc_id |-> v,
      host_condition |-> "dijam.online", subnets |-> TwoSubnets,
      container_port |-> p, fail |-> 0] :
        n \in Names, v \in Ids("vpc-1"), p \in {PyInt(0), PyInt(80)}}
    \cup {[name |-> GoodName, listener_arn |-> l, vpc_id |-> v,
           host_condition |-> h, subnets |-> s, container_port |-> p,
           fail |-> 0] :
        l \in {OUTPUT, "", "arn:listener"}, v \in {OUTPUT, "", "vpc-1"},
        h \in {"", "dijam.online"}, s \in SubnetLists,
        p \in Ports \cup {NotAnInt}}
    \cup {[name |-> GoodName, listener_arn |-> OUTPUT, vpc_id |-> OUTPUT,
           host_condition |-> "dijam.online", subnets |-> PyListOutput,
           container_port |-> PyInt(80), fail |-> f] : f \in 0..2}

DeclareHostBasedALBTargetGroup ==
    /\ Idle
    /\ UNCHANGED main_vars
    /\ priority_counter <= MaxPriority
    /\ \E a \in HostBasedALBTargetGroupCalls :
        HostBasedALBTargetGroupInit(a.name, a.listener_arn, a.vpc_id,
                                    a.host_condition, a.subnets, a.container_port,
                                    a.fail)

SSLCertificateCalls ==
    {[name |-> n, domain_name |-> GoodDomain, fail |-> f] :
        n \in Names, f \in 0..1}
    \cup {[name |-> GoodName, domain_name |-> d, fail |-> 0] :
            d \in Domains \cup {Append(GoodDomain, "\n")}}

DeclareSSLCertificate ==
    /\ Idle
    /\ UNCHANGED main_vars
    /\ \E a \in SSLCertificateCalls, include_www \in BOOLEAN :
        SSLCertificateInit(a.name, a.domain_name, include_www, a.fail)

DeclareIAMPolicy ==
    /\ Idle
    /\ UNCHANGED main_vars
    /\ \E name \in Names, policy_document \in Documents, fail \in 0..1 :
        IAMPolicyInit(name, policy_document, fail)

IAMRoleCalls ==
    {[name |-> n, assume_role_policy |-> "doc", policy_arn |-> p, fail |-> 0] :
        n \in Names, p \in Ids("arn:policy")}
    \cup {[name |-> GoodName, assume_role_policy |-> d, policy_arn |-> p,
           fail |-> f] :
        d \in Documents, p \in Ids("arn:policy"), f \in 0..2}

DeclareIAMRole ==
    /\ Idle
    /\ UNCHANGED main_vars
    /\ \E a \in IAMRoleCalls :
        IAMRoleInit(a.name, a.assume_role_policy, a.policy_arn, a.fail)

DeclareDBSecret ==
    /\ Idle
    /\ UNCHANGED main_vars
    /\ \E name \in Names, username \in {OUTPUT, "admin"},
          password \in {OUTPUT, "hunter2"}, fail \in 0..1 :
        DBSecretInit(name, username, password, fail)

Next ==
    \/ DeclareVPC
    \/ DeclareSecurityGroup
    \/ DeclareRDS
    \/ DeclareEC2Instance
    \/ DeclareECSCluster
    \/ DeclareECSService
    \/ DeclareApplicationLoadBalancer
    \/ DeclareHostBasedALBTargetGroup
    \/ DeclareSSLCertificate
    \/ DeclareIAMPolicy
    \/ DeclareIAMRole
    \/ DeclareDBSecret
    \/ Continue

Spec == Init /\ [][Next]_vars

-----------------------------------------------------------------------------
(* __main__.py: the composition. Each declaration is one statement; a      *)
(* statement that raises ends the program, nothing catches it.             *)

Configs ==
    {[region |-> r, vpcCidr |-> c, dbName |-> d, backupRetention |-> b] :
        r \in Regions,
        c \in {<<>>, <<DefaultCidr>>, <<Cidr(10, 128, 0, 0, 16)>>, <<Cidr(10, 0, 0, 0, 25)>>},
        d \in {<<>>, <<"appdb">>},
        b \in {<<>>, <<(<<"0">>)>>, <<(<<"1", "4">>)>>, <<(<<"x">>)>>}}

\* vpc_cidr = config.require("vpcCidr")
vpc_cidr == config.vpcCidr[1]
\* db_name = config.get("dbName", "mydatabase")
db_name == IF config.dbName = <<>> THEN "mydatabase" ELSE config.dbName[1]
\* int(text) for a text of decimal digits
DigitValue(c) ==
    CASE c = "0" -> 0 [] c = "1" -> 1 [] c = "2" -> 2 [] c = "3" -> 3 [] c = "4" -> 4
      [] c = "5" -> 5 [] c = "6" -> 6 [] c = "7" -> 7 [] c = "8" -> 8 [] OTHER -> 9
IsDecimal(text) ==
    /\ Len(text) > 0
    /\ \A i \in 1..Len(text) :
        text[i] \in {"0", "1", "2", "3", "4", "5", "6", "7", "8", "9"}
RECURSIVE IntOf(_)
IntOf(text) ==
    IF Len(text) = 0 THEN 0
    ELSE 10 * IntOf(SubSeq(text, 1, Len(text) - 1)) + DigitValue(text[Len(text)])

\* backup_retention = config.get_int("backupRetention", 7)
backup_retention ==
    IF config.backupRetention = <<>> THEN 7 ELSE IntOf(config.backupRetention[1])

\* The order with the load balancer declared before the certificate it reads
MainOrder_AlbBeforeCertificate ==
    << "vpc", "alb_sg", "ecs_sg", "rds_sg", "rds_instance", "task_execution_policy",
       "execution_role", "task_policy", "task_role", "ecs_cluster",
       "alb", "ssl_cert_with_www", "host_tg_1", "nginx_service",
       "kibana_logstash_sg", "elasticsearch_sg", "elasticsearch_instance",
       "kibana_logstash_instance" >>

\* The variables the module binds, in the order of their statements
MainOrder ==
    << "vpc", "alb_sg", "ecs_sg", "rds_sg", "rds_instance", "task_execution_policy",
       "execution_role", "task_policy", "task_role", "ecs_cluster",
       "ssl_cert_with_www", "alb", "host_tg_1", "nginx_service",
       "kibana_logstash_sg", "elasticsearch_sg", "elasticsearch_instance",
       "kibana_logstash_instance" >>

MainInit ==
    /\ stack \in Stacks
    /\ config \in Configs
    /\ call = [kind |-> "none", args |-> EmptyDict]
    /\ result = Returned
    /\ emitted = <<>>
    /\ priority_counter = 1
    /\ pc = 0
    /\ log = <<>>
    /\ threads = <<>>

\* Lines 15-22: the configuration is read; a missing required key raises.
MainReadConfig ==
    /\ pc = 0
    /\ result.status = "ok"
    /\ IF config.vpcCidr = <<>>
       THEN /\ result' = Raise("ConfigMissingError",
                               <<"Missing required configuration variable 'numeris-book:vpcCidr'">>)
            /\ pc' = pc
       ELSE IF config.backupRetention # <<>> /\ ~IsDecimal(config.backupRetention[1])
       THEN \* get_int on a value that is not an integer
            /\ result' = Raise("ConfigTypeError",
                               <<"Configuration 'numeris-book:backupRetention' value is not a valid int">>)
            /\ pc' = pc
       ELSE /\ result' = result
            /\ pc' = 1
    /\ UNCHANGED <<stack, call, emitted, priority_counter, config, log, threads>>

\* The variable was bound by a statement that ran to its end
Bound(var) == \E i \in 1..Len(log) : log[i].var = var /\ log[i].status = "ok"

\* A program that went on to its current statement after an exception
At_KeepGoing(var) == pc \in 1..Len(MainOrder) /\ MainOrder[pc] = var

\* The program has reached the statement that binds var
At(var) == pc \in 1..Len(MainOrder) /\ MainOrder[pc] = var /\ result.status = "ok"

\* One statement `var = Kind(...)`: refs are the (argument, variable) pairs it
\* reads from earlier declarations; reading an unbound name raises NameError
\* before the constructor is called.
Statement(var, refs, Construct) ==
    /\ UNCHANGED <<config, threads>>
    /\ IF \A r \in refs : Bound(r[2])
       THEN /\ Construct
            /\ log' = Append(log, [var |-> var, kind |-> call'.kind, refs |-> refs,
                                   status |-> result'.status, emitted |-> emitted'])
            /\ pc' = IF result'.status = "ok" THEN pc + 1 ELSE pc
       ELSE /\ result' = Raise("NameError", <<"name is not defined">>)
            /\ UNCHANGED <<stack, call, emitted, priority_counter, pc, log>>

\* "dijam.online", character by character
DijamOnline == <<"d", "i", "j", "a", "m", ".", "o", "n", "l", "i", "n", "e">>

CidrIngress(port) ==
    [t |-> "dict",
     d |-> [protocol |-> "tcp", from_port |-> port, to_port |-> port,
            cidr_block |-> "0.0.0.0/0"]]
\* security_group_id is the id output of another security group
PeerIngress(port) ==
    [t |-> "dict",
     d |-> [protocol |-> "tcp", from_port |-> port, to_port |-> port,
            security_group_id |-> OUTPUT]]

Main_vpc ==
    /\ At("vpc")
    /\ Statement("vpc", {},
        \E fail \in 0..14 :
            VPCInit(<<"my-app-vpc-", stack>>, vpc_cidr, config.region, fail))

Main_alb_sg ==
    /\ At("alb_sg")
    /\ Statement("alb_sg", {<<"vpc_id", "vpc">>},
        \E fail \in 0..1 :
            SecurityGroupInit(<<"alb-sg-", stack>>, OUTPUT,
                              <<CidrIngress(80), CidrIngress(443)>>, <<AllowAll>>,
                              <<>>, fail))

Main_ecs_sg ==
    /\ At("ecs_sg")
    /\ Statement("ecs_sg", {<<"vpc_id", "vpc">>, <<"ingress", "alb_sg">>},
        \E fail \in 0..1 :
            SecurityGroupInit(<<"ecs-sg-", stack>>, OUTPUT, <<PeerIngress(80)>>,
                              <<AllowAll>>, <<>>, fail))

Main_rds_sg ==
    /\ At("rds_sg")
    /\ Statement("rds_sg", {<<"vpc_id", "vpc">>, <<"ingress", "ecs_sg">>},
        \E fail \in 0..1 :
            SecurityGroupInit(<<"rds-sg-", stack>>, OUTPUT, <<PeerIngress(5432)>>,
                              <<AllowAll>>, <<>>, fail))

Main_rds_instance ==
    /\ At("rds_instance")
    /\ Statement("rds_instance",
              {<<"vpc_id", "vpc">>, <<"private_subnet_ids", "vpc">>,
               <<"security_group_id", "rds_sg">>},
        \E fail \in 0..2 :
            RDSInit(<<"my-app-rds-", stack>>, OUTPUT, PyListOutput, OUTPUT, db_name,
                    "admin", TRUE, <<backup_retention>>, fail))

Main_task_execution_policy ==
    /\ At("task_execution_policy")
    /\ Statement("task_execution_policy", {},
        \E fail \in 0..1 :
            IAMPolicyInit(<<"ecs-task-execution-policy-", stack>>, "doc", fail))

Main_execution_role ==
    /\ At("execution_role")
    /\ Statement("execution_role", {<<"policy_arn", "task_execution_policy">>},
        \E fail \in 0..2 :
            IAMRoleInit(<<"ecs-execution-role-", stack>>, "doc", OUTPUT, fail))

Main_task_policy ==
    /\ At("task_policy")
    /\ Statement("task_policy", {},
        \E fail \in 0..1 :
            IAMPolicyInit(<<"ecs-task-policy-", stack>>, "doc", fail))

Main_task_role ==
    /\ At("task_role")
    /\ Statement("task_role", {<<"policy_arn", "task_policy">>},
        \E fail \in 0..2 :
            IAMRoleInit(<<"ecs-task-role-", stack>>, "doc", OUTPUT, fail))

Main_ecs_cluster ==
    /\ At("ecs_cluster")
    /\ Statement("ecs_cluster", {},
        \E fail \in 0..1 : ECSClusterInit(<<"test-cluster-", stack>>, FALSE, fail))

Main_ssl_cert_with_www ==
    /\ At("ssl_cert_with_www")
    /\ Statement("ssl_cert_with_www", {},
        \E fail \in 0..1 :
            SSLCertificateInit(<<"my-app-", stack>>, DijamOnline, TRUE, fail))

Main_alb ==
    /\ At("alb")
    /\ Statement("alb",
              {<<"vpc_id", "vpc">>, <<"subnets", "vpc">>,
               <<"certificate_arn", "ssl_cert_with_www">>,
               <<"alb_security_group_id", "alb_sg">>},
        \E fail \in 0..3 :
            ApplicationLoadBalancerInit(<<"my-app-alb-", stack>>, OUTPUT, PyListOutput,
                                        OUTPUT, OUTPUT, fail))

Main_host_tg_1 ==
    /\ At("host_tg_1")
    /\ Statement("host_tg_1",
              {<<"listener_arn", "alb">>, <<"vpc_id", "vpc">>, <<"subnets", "vpc">>},
        \E fail \in 0..2 :
            HostBasedALBTargetGroupInit(<<"nginx-", stack>>, OUTPUT, OUTPUT,
                                        "dijam.online", PyListOutput, PyInt(80), fail))

Main_nginx_service ==
    /\ At("nginx_service")
    /\ Statement("nginx_service",
              {<<"cluster_arn", "ecs_cluster">>,
               <<"task_execution_role_arn", "execution_role">>,
               <<"target_group_arn", "host_tg_1">>, <<"subnets", "vpc">>,
               <<"security_group_id", "alb_sg">>, <<"vpc_id", "vpc">>},
        \E fail \in 0..6 :
            ECSServiceInit(<<"nginx-", stack>>, OUTPUT, OUTPUT, OUTPUT, "nginx",
                           "nginx:latest", PyInt(80), OUTPUT, 1, 1, 5, PyListOutput,
                           NONE, fail))

Main_kibana_logstash_sg ==
    /\ At("kibana_logstash_sg")
    /\ Statement("kibana_logstash_sg", {<<"vpc_id", "vpc">>},
        \E fail \in 0..1 :
            SecurityGroupInit(<<"kibana-logstash-sg-", stack>>, OUTPUT,
                              <<CidrIngress(5601)>>, <<AllowAll>>, <<>>, fail))

Main_elasticsearch_sg ==
    /\ At("elasticsearch_sg")
    /\ Statement("elasticsearch_sg",
              {<<"vpc_id", "vpc">>, <<"ingress", "kibana_logstash_sg">>},
        \E fail \in 0..1 :
            SecurityGroupInit(<<"elasticsearch-sg-", stack>>, OUTPUT,
                              <<PeerIngress(9200)>>, <<AllowAll>>, <<>>, fail))

\* tags={"Owner": ..., "Project": ..., "CostCenter": ..., "Name": f"{label}{stack_name}"}
MainInstanceTags(label) ==
    << [Owner |-> "Dijam", Project |-> "Numeris", CostCenter |-> "1234",
        Name |-> <<label, stack>>] >>

Main_elasticsearch_instance ==
    /\ At("elasticsearch_instance")
    /\ Statement("elasticsearch_instance",
              {<<"subnet_id", "vpc">>, <<"security_group_ids", "elasticsearch_sg">>},
        \E fail \in 0..1 :
            EC2InstanceInit(<<"elasticsearch-instance-", stack>>,
                            "ami-0866a3c8686eaeeba", "t2.micro", OUTPUT,
                            PyList(<<OUTPUT>>), "#!/bin/bash",
                            MainInstanceTags("Elasticsearch-Instance-"), fail))

Main_kibana_logstash_instance ==
    /\ At("kibana_logstash_instance")
    /\ Statement("kibana_logstash_instance",
              {<<"subnet_id", "vpc">>, <<"security_group_ids", "kibana_logstash_sg">>,
               <<"user_data", "elasticsearch_instance">>},
        \E fail \in 0..1 :
            EC2InstanceInit(<<"kibana-logstash-instance-", stack>>,
                            "ami-0866a3c8686eaeeba", "t2.micro", OUTPUT,
                            PyList(<<OUTPUT>>), OUTPUT,
                            MainInstanceTags("Kibana-Logstash-Instance-"), fail))

MainNext ==
    \/ MainReadConfig
    \/ Main_vpc
    \/ Main_alb_sg
    \/ Main_ecs_sg
    \/ Main_rds_sg
    \/ Main_rds_instance
    \/ Main_task_execution_policy
    \/ Main_execution_role
    \/ Main_task_policy
    \/ Main_task_role
    \/ Main_ecs_cluster
    \/ Main_ssl_cert_with_www
    \/ Main_alb
    \/ Main_host_tg_1
    \/ Main_nginx_service
    \/ Main_kibana_logstash_sg
    \/ Main_elasticsearch_sg
    \/ Main_elasticsearch_instance
    \/ Main_kibana_logstash_instance

MainSpec == MainInit /\ [][MainNext]_vars

\* The composition is run once more in the same process: the module's
\* statements start over, the class attribute _priority_counter keeps its
\* value. The log keeps the declarations of the first run.
MainReplay ==
    /\ pc = Len(MainOrder) + 1
    /\ result.status = "ok"
    /\ Len(log) = Len(MainOrder)
    /\ pc' = 0
    /\ call' = [kind |-> "none", args |-> EmptyDict]
    /\ emitted' = <<>>
    /\ UNCHANGED <<stack, result, priority_counter, config, log, threads>>

ReplayNext ==
    \/ MainNext
    \/ MainReplay

ReplaySpec == MainInit /\ [][ReplayNext]_vars

\* The database component used on its own before the composition runs: RDS
\* takes backup_retention as an optional argument, which the composition
\* always passes.
DeclareDatabase ==
    /\ pc = 0
    /\ DeclareRDS

DatabaseDeclared ==
    /\ pc = 0
    /\ Continue

DatabaseNext ==
    \/ DeclareDatabase
    \/ DatabaseDeclared
    \/ MainNext

DatabaseSpec == MainInit /\ [][DatabaseNext]_vars

-----------------------------------------------------------------------------
(* Two threads of one process, each declaring a target group *)

\* The threads that share HostBasedALBTargetGroup._priority_counter
Threads == {1, 2}

\* HostBasedALBTargetGroup(f"tg{t}", listener_arn=<Output>, vpc_id=<Output>, ...)
ThreadName(t) == <<"tg", ToString(t)>>

\* A thread's place in its declaration, the local `priority` and the value
\* `+=` has loaded
ThreadAt(t, at) == threads[t].at = at
ThreadMoves(t, at, priority, loaded) ==
    threads' = [threads EXCEPT ![t] = [at |-> at, priority |-> priority, loaded |-> loaded]]

RaceInit ==
    /\ stack \in Stacks
    /\ call = [kind |-> "none", args |-> EmptyDict]
    /\ result = Returned
    /\ emitted = <<>>
    /\ priority_counter = 1
    /\ config = NoConfig
    /\ pc = 0
    /\ log = <<>>
    /\ threads = [t \in Threads |-> [at |-> "init", priority |-> 0, loaded |-> 0]]

\* super().__init__ and _validate_inputs, which returns at once for an Output
Thread_init(t) ==
    /\ ThreadAt(t, "init")
    /\ ~Failed(TG_validate_inputs(OUTPUT, OUTPUT, "dijam.online", PyListOutput, PyInt(80)))
    /\ emitted' = Append(emitted, Component("custom:network:HostBasedALBTargetGroup",
                                            ThreadName(t)))
    /\ ThreadMoves(t, "target_group", 0, 0)
    /\ UNCHANGED <<stack, call, result, priority_counter, config, pc, log>>

\* _create_target_group: submitted, or rejected by the provider
Thread_create_target_group(t) ==
    /\ ThreadAt(t, "target_group")
    /\ \/ /\ emitted' = Append(emitted,
                                TG_create_target_group(ThreadName(t), OUTPUT, PyInt(80)))
          /\ ThreadMoves(t, "read", 0, 0)
       \/ /\ emitted' = emitted
          /\ ThreadMoves(t, "raised", 0, 0)
    /\ UNCHANGED <<stack, call, result, priority_counter, config, pc, log>>

\* A read that takes the value and increments the counter in one step
Thread_read_counter_Atomic(t) ==
    /\ ThreadAt(t, "read")
    /\ ThreadMoves(t, "rule", priority_counter, priority_counter)
    /\ priority_counter' = priority_counter + 1
    /\ UNCHANGED <<stack, call, result, emitted, config, pc, log>>

\* priority = HostBasedALBTargetGroup._priority_counter
Thread_read_counter(t) ==
    /\ ThreadAt(t, "read")
    /\ ThreadMoves(t, "load", priority_counter, 0)
    /\ UNCHANGED <<stack, call, result, emitted, priority_counter, config, pc, log>>

\* HostBasedALBTargetGroup._priority_counter += 1, the load of the attribute
Thread_load_counter(t) ==
    /\ ThreadAt(t, "load")
    /\ ThreadMoves(t, "store", threads[t].priority, priority_counter)
    /\ UNCHANGED <<stack, call, result, emitted, priority_counter, config, pc, log>>

\* ... and the store of the sum
Thread_store_counter(t) ==
    /\ ThreadAt(t, "store")
    /\ priority_counter' = threads[t].loaded + 1
    /\ ThreadMoves(t, "rule", threads[t].priority, threads[t].loaded)
    /\ UNCHANGED <<stack, call, result, emitted, config, pc, log>>

\* lb.ListenerRule(..., priority=priority, ...): submitted, or rejected
Thread_create_listener_rule(t) ==
    /\ ThreadAt(t, "rule")
    /\ \/ /\ emitted' = Append(emitted,
                                TG_create_listener_rule(ThreadName(t), OUTPUT, "dijam.online",
                                                        threads[t].priority))
          /\ ThreadMoves(t, "done", threads[t].priority, threads[t].loaded)
       \/ /\ emitted' = emitted
          /\ ThreadMoves(t, "raised", threads[t].priority, threads[t].loaded)
    /\ UNCHANGED <<stack, call, result, priority_counter, config, pc, log>>

RaceNext ==
    \E t \in Threads :
        \/ Thread_init(t)
        \/ Thread_create_target_group(t)
        \/ Thread_read_counter(t)
        \/ Thread_load_counter(t)
        \/ Thread_store_counter(t)
        \/ Thread_create_listener_rule(t)

RaceSpec == RaceInit /\ [][RaceNext]_vars

-----------------------------------------------------------------------------
(* Observations the properties are stated on *)

ComponentTypes ==
    {"custom:network:VPC", "custom:resource:SecurityGroup", "custom:storage:RDS",
     "custom:resource:EC2Instance", "custom:ecs:ECSCluster", "custom:ecs:ECSService",
     "custom:network:ApplicationLoadBalancer",
     "custom:network:HostBasedALBTargetGroup", "custom:network:SSLCertificate",
     "custom:iam:IAMPolicy", "custom:iam:IAMRole", "custom:secrets:DBSecret"}
IsComponent(r) == r.type \in ComponentTypes

Raised == result.status = "raised"

\* name is non-empty and every character is a letter, a digit or a hyphen
MatchesNamePattern(name) ==
    Len(name) > 0 /\ \A i \in 1..Len(name) : name[i] \in {"a", "Z", "7", "-"}

NameMessages ==
    {"Name must be a non-empty string",
     "Name can only contain alphanumeric characters and hyphens"}

\* What the declaration's own input validation says of the call's arguments
ValidationOf(c) ==
    CASE c.kind = "VPC" -> VPC_validate_inputs(c.args.name, c.args.cidr_block)
      [] c.kind = "SecurityGroup" ->
            SG_validate_inputs(c.args.name, c.args.vpc_id, c.args.ingress,
                               c.args.egress)
      [] c.kind = "RDS" ->
            RDS_validate_inputs(c.args.name, c.args.vpc_id,
                                c.args.private_subnet_ids, c.args.db_name,
                                c.args.username)
      [] c.kind = "EC2Instance" ->
            EC2_validate_inputs(c.args.name, c.args.ami, c.args.instance_type,
                                c.args.subnet_id, c.args.security_group_ids)
      [] c.kind = "ECSCluster" -> ECSCluster_validate_inputs(c.args.name)
      [] c.kind = "ECSService" ->
            ECSService_validate_inputs(c.args.name, c.args.container_name,
                                       c.args.container_image,
                                       c.args.container_port, c.args.desired_count,
                                       c.args.min_count, c.args.max_count)
      [] c.kind = "ApplicationLoadBalancer" ->
            ALB_validate_inputs(c.args.vpc_id, c.args.subnets,
                                c.args.certificate_arn,
                                c.args.alb_security_group_id)
      [] c.kind = "HostBasedALBTargetGroup" ->
            TG_validate_inputs(c.args.listener_arn, c.args.vpc_id,
                               c.args.host_condition, c.args.subnets,
                               c.args.container_port)
      [] c.kind = "SSLCertificate" ->
            SSL_validate_inputs(c.args.name, c.args.domain_name)
      [] c.kind = "IAMPolicy" ->
            IAM_validate_document(c.args.policy_document, "Policy document")
      [] c.kind = "IAMRole" ->
            IAM_validate_document(c.args.assume_role_policy, "Assume role policy")
      [] OTHER -> NoError

\* The resource the SecurityGroup / EC2Instance call submitted after its component
Submitted(kind) == call.kind = kind /\ Len(emitted) = 2

-----------------------------------------------------------------------------
(* C1: for each declaration kind that takes a resource name (VPC,           *)
(* SecurityGroup, RDS, EC2Instance, ECSCluster, ECSService) a non-empty     *)
(* name of letters, digits and hyphens is not refused for its name, and     *)
(* every other name is refused with a ValueError before anything is         *)
(* submitted.                                                               *)
C1_NamePatternEnforced ==
    call.kind \in {"VPC", "SecurityGroup", "RDS", "EC2Instance", "ECSCluster",
                   "ECSService"} =>
        IF MatchesNamePattern(call.args.name)
        THEN ~(Raised /\ result.msg[Len(result.msg)] \in NameMessages)
        ELSE Raised /\ result.exc = "ValueError" /\ emitted = <<>>

(* C2: a SecurityGroup call with an ingress rule dictionary that supplies   *)
(* both security_group_id and cidr_block, or neither, raises.               *)
AmbiguousRule(rule) ==
    IsDict(rule)
        /\ (("security_group_id" \in DOMAIN rule.d) = ("cidr_block" \in DOMAIN rule.d))

C2_AmbiguousRuleRejected ==
    (call.kind = "SecurityGroup"
        /\ \E i \in 1..Len(call.args.ingress) : AmbiguousRule(call.args.ingress[i]))
    => Raised

(* C3: in the security group a SecurityGroup call submits, every ingress    *)
(* rule with exactly one of security_group_id / cidr_block (counting the    *)
(* rules up to the first that has not) gives exactly one entry, at the      *)
(* rule's position: the rule's from_port and to_port, its protocol or       *)
(* "tcp" when it has none, and the one source key security_groups = [id]    *)
(* or cidr_blocks = [cidr].                                                 *)
ExactlyOneSource(rule) ==
    IsDict(rule)
        /\ (("security_group_id" \in DOMAIN rule.d) # ("cidr_block" \in DOMAIN rule.d))

NormalizedAs(rule, e) ==
    /\ e.from_port = (IF "from_port" \in DOMAIN rule.d THEN <<rule.d.from_port>> ELSE <<>>)
    /\ e.to_port = (IF "to_port" \in DOMAIN rule.d THEN <<rule.d.to_port>> ELSE <<>>)
    /\ e.protocol = (IF "protocol" \in DOMAIN rule.d THEN rule.d.protocol ELSE "tcp")
    /\ IF "security_group_id" \in DOMAIN rule.d
       THEN /\ DOMAIN e = {"protocol", "from_port", "to_port", "security_groups"}
            /\ e.security_groups = <<rule.d.security_group_id>>
       ELSE /\ DOMAIN e = {"protocol", "from_port", "to_port", "cidr_blocks"}
            /\ e.cidr_blocks = <<rule.d.cidr_block>>

C3_ExactlyOneSourceNormalized ==
    Submitted("SecurityGroup") =>
        LET rules == call.args.ingress
            out == emitted[2].props.ingress
        IN \A i \in 1..Len(rules) :
            (\A j \in 1..i : ExactlyOneSource(rules[j])) =>
                /\ Len(out) >= i
                /\ NormalizedAs(rules[i], out[i])
                /\ (i = Len(rules) => Len(out) = i)

\* a peer-group rule with no protocol, then a CIDR rule with one, were submitted
C3_Witness ==
    /\ Submitted("SecurityGroup")
    /\ Len(call.args.ingress) = 2
    /\ \A j \in 1..2 : ExactlyOneSource(call.args.ingress[j])
    /\ "security_group_id" \in DOMAIN call.args.ingress[1].d
    /\ "protocol" \notin DOMAIN call.args.ingress[1].d
    /\ "cidr_block" \in DOMAIN call.args.ingress[2].d
    /\ "protocol" \in DOMAIN call.args.ingress[2].d

(* C4: a VPC call whose CIDR block does not parse as a network, or whose    *)
(* prefix length is below 16 or above 24, raises ValueError "Invalid CIDR   *)
(* block" with nothing submitted; with a non-empty name, a block that       *)
(* parses with prefix length 16..24 passes validation (the component is     *)
(* registered and no ValueError is raised).                                 *)
C4_CidrPrefixBounds ==
    call.kind = "VPC" =>
        LET c == call.args.cidr_block
            fine == Parses(c) /\ 16 <= PrefixLen(c) /\ PrefixLen(c) <= 24
        IN /\ ~fine =>
                /\ Raised
                /\ result.exc = "ValueError"
                /\ emitted = <<>>
                /\ (Len(call.args.name) > 0 => result.msg[1] = "Invalid CIDR block")
           /\ (fine /\ Len(call.args.name) > 0) =>
                /\ result.exc # "ValueError"
                /\ Len(emitted) >= 1
                /\ emitted[1].type = "custom:network:VPC"

\* a /24 block was accepted and the whole network submitted
C4_Witness ==
    /\ call.kind = "VPC"
    /\ PrefixLen(call.args.cidr_block) = 24
    /\ result.status = "ok"
    /\ Len(emitted) = 15

(* C5: every subnet a VPC call submits has its CIDR block inside the        *)
(* call's cidr_block.                                                       *)
C5_SubnetsInsideParent ==
    call.kind = "VPC" =>
        \A i \in 1..Len(emitted) :
            emitted[i].type = "aws:ec2/subnet:Subnet" =>
                SubnetOf(emitted[i].props.cidr_block, call.args.cidr_block)

(* C6: a call whose input validation fails has submitted nothing, not even  *)
(* its component.                                                           *)
C6_NothingSubmittedOnValidationFailure ==
    Failed(ValidationOf(call)) => emitted = <<>>

(* C7: in SecurityGroup, HostBasedALBTargetGroup, ApplicationLoadBalancer,  *)
(* RDS and EC2Instance an argument known at the call is validated also      *)
(* when vpc_id (subnet_id for EC2Instance) is an Output: the call raises    *)
(* on a bad name, an empty list, an empty string or a port out of range.    *)
C7_KnownArgumentsStillValidated ==
    LET a == call.args
    IN /\ (call.kind = "SecurityGroup" /\ IsOutput(a.vpc_id)
            /\ (~MatchesNamePattern(a.name) \/ Len(a.ingress) = 0 \/ Len(a.egress) = 0))
          => Raised
       /\ (call.kind = "HostBasedALBTargetGroup" /\ IsOutput(a.vpc_id)
            /\ \/ a.listener_arn = ""
               \/ a.host_condition = ""
               \/ a.subnets.t = "list" /\ Len(a.subnets.v) = 0
               \/ a.container_port.t = "int" /\ a.container_port.v \notin 1..65535)
          => Raised
       /\ (call.kind = "ApplicationLoadBalancer" /\ IsOutput(a.vpc_id)
            /\ \/ a.subnets.t = "list" /\ Len(a.subnets.v) < 2
               \/ a.certificate_arn = ""
               \/ a.alb_security_group_id = "")
          => Raised
       /\ (call.kind = "RDS" /\ IsOutput(a.vpc_id)
            /\ \/ Len(a.name) = 0
               \/ a.private_subnet_ids.t = "list" /\ Len(a.private_subnet_ids.v) = 0
               \/ a.db_name = ""
               \/ a.username = "")
          => Raised
       /\ (call.kind = "EC2Instance" /\ IsOutput(a.subnet_id)
            /\ \/ ~MatchesNamePattern(a.name)
               \/ a.ami = ""
               \/ a.instance_type = ""
               \/ a.security_group_ids.t = "list" /\ Len(a.security_group_ids.v) = 0)
          => Raised

(* C8: a HostBasedALBTargetGroup or ECSService call with an integer         *)
(* container_port raises when the port is outside 1..65535 and is not       *)
(* refused for its port when it is inside.                                  *)
PortMessages ==
    {"Container port must be a valid port number",
     "Container port must be between 1 and 65535"}

C8_PortRangeEnforced ==
    (call.kind \in {"HostBasedALBTargetGroup", "ECSService"}
        /\ call.args.container_port.t = "int") =>
        IF call.args.container_port.v \in 1..65535
        THEN ~(Raised /\ result.msg[Len(result.msg)] \in PortMessages)
        ELSE Raised

(* C9: in the tag set of the resource a SecurityGroup or EC2Instance call   *)
(* submits, every key of the caller's tags has the caller's value and       *)
(* every other key of the declaration's own tags keeps its own value; the   *)
(* set has no other key.                                                    *)
OwnTags(c) ==
    IF c.kind = "SecurityGroup"
    THEN [Owner |-> "Dijam", Project |-> "Numeris", CostCenter |-> "1234",
          Name |-> c.args.name \o <<"-sg">>, Environment |-> <<stack>>,
          ManagedBy |-> "Pulumi"]
    ELSE [Name |-> c.args.name \o <<"-instance">>, Environment |-> <<stack>>,
          ManagedBy |-> "Pulumi"]

C9_CallerTagsWin ==
    (Submitted("SecurityGroup") \/ Submitted("EC2Instance")) =>
        LET caller == IF Len(call.args.tags) = 0 THEN EmptyDict ELSE call.args.tags[1]
            own == OwnTags(call)
            tags == emitted[2].tags[1]
        IN /\ DOMAIN tags = DOMAIN own \cup DOMAIN caller
           /\ \A k \in DOMAIN caller : tags[k] = caller[k]
           /\ \A k \in DOMAIN own \ DOMAIN caller : tags[k] = own[k]

\* the caller's Environment and ManagedBy replaced the declaration's own
C9_Witness ==
    /\ Submitted("SecurityGroup")
    /\ result.status = "ok"
    /\ Len(call.args.tags) = 1
    /\ "Environment" \in DOMAIN call.args.tags[1]
    /\ emitted[2].tags[1]["Environment"] # <<stack>>
    /\ emitted[2].tags[1]["Owner"] = "Dijam"

(* C10: every resource a declaration submits (its component aside) has a    *)
(* tag set with the six keys Owner, Project, CostCenter, Name, Environment  *)
(* and ManagedBy.                                                           *)
C10_SixTagKeysEverywhere ==
    \A i \in 1..Len(emitted) :
        ~IsComponent(emitted[i]) =>
            /\ Len(emitted[i].tags) = 1
            /\ {"Owner", "Project", "CostCenter", "Name", "Environment", "ManagedBy"}
                    \subseteq DOMAIN emitted[i].tags[1]

(* C11: in every tag set a declaration of the composition submits, the      *)
(* Name tag is the declaration's base name followed by a resource suffix    *)
(* ("-sg", "-instance", ...) and the Environment tag is the stack name,     *)
(* also where the declaration is given tags by its caller.                  *)
ResourceSuffixes ==
    {"-sg", "-vpc", "-public-subnet-az", "-private-subnet-az", "-igw", "-nat-gw",
     "-public-rt", "-private-rt", "-rds-subnet-group", "-rds-instance", "-instance",
     "-cluster", "-log-group", "-service", "-alb", "-tg", "-cert", "-policy",
     "-role", "-db-credentials"}

DerivedName(base, tag) ==
    /\ Len(tag) > Len(base)
    /\ SubSeq(tag, 1, Len(base)) = base
    /\ tag[Len(base) + 1] \in ResourceSuffixes

C11_NameAndEnvironmentDerived ==
    \A i \in 1..Len(log) :
        \A j \in 2..Len(log[i].emitted) :
            LET r == log[i].emitted[j]
                base == log[i].emitted[1].name
            IN Len(r.tags) = 1 =>
                /\ {"Name", "Environment"} \subseteq DOMAIN r.tags[1]
                /\ DerivedName(base, r.tags[1]["Name"])
                /\ r.tags[1]["Environment"] = <<stack>>

(* C12: in the composition, every reference a declaration reads (vpc id,    *)
(* subnet ids, security-group id, listener ARN, certificate ARN, cluster    *)
(* ARN, role ARN, target-group ARN, policy ARN, private IP) is an output of *)
(* a declaration made strictly earlier: no statement reads a name that is   *)
(* not bound yet, so the reference graph has no cycle.                      *)
C12_ReferencesPointEarlier ==
    /\ result.exc # "NameError"
    /\ \A i \in 1..Len(log) :
        \A r \in log[i].refs :
            \E j \in 1..(i - 1) : log[j].var = r[2] /\ log[j].status = "ok"

\* the whole composition was declared, down to the instance that reads the
\* private IP of the instance before it
C12_Witness ==
    /\ Len(log) = Len(MainOrder)
    /\ result.status = "ok"
    /\ <<"user_data", "elasticsearch_instance">> \in log[Len(log)].refs
    /\ <<"certificate_arn", "ssl_cert_with_www">> \in log[12].refs

(* C13: a VPC declared with 10.0.0.0/16 submits exactly four subnets, each  *)
(* a /24: two associated with the route table whose default route goes to   *)
(* the internet gateway (public) and two with the route table whose default *)
(* route goes to the NAT gateway (private); they lie in two availability    *)
(* zones, one public and one private subnet in each.                        *)
Submissions(type) == {i \in 1..Len(emitted) : emitted[i].type = type}

\* the route table has a default route whose target `key` is a gateway of gwtype
DefaultRouteVia(rt, key, gwtype) ==
    \E k \in 1..Len(rt.props.routes) :
        LET route == rt.props.routes[k]
        IN /\ route.cidr_block = "0.0.0.0/0"
           /\ key \in DOMAIN route
           /\ \E g \in Submissions(gwtype) : route[key] = Ref(emitted[g].name, "id")

PublicRouteTables ==
    {t \in Submissions("aws:ec2/routeTable:RouteTable") :
        DefaultRouteVia(emitted[t], "gateway_id", "aws:ec2/internetGateway:InternetGateway")}
PrivateRouteTables ==
    {t \in Submissions("aws:ec2/routeTable:RouteTable") :
        DefaultRouteVia(emitted[t], "nat_gateway_id", "aws:ec2/natGateway:NatGateway")}

\* the subnets associated with one of the route tables rts
SubnetsOn(rts) ==
    {n \in Submissions("aws:ec2/subnet:Subnet") :
        \E a \in Submissions("aws:ec2/routeTableAssociation:RouteTableAssociation"),
           t \in rts :
            /\ emitted[a].props.subnet_id = Ref(emitted[n].name, "id")
            /\ emitted[a].props.route_table_id = Ref(emitted[t].name, "id")}

C13_DefaultNetworkLayout ==
    (call.kind = "VPC" /\ call.args.cidr_block = Cidr(10, 0, 0, 0, 16)
        /\ result.status = "ok") =>
        LET subnets == Submissions("aws:ec2/subnet:Subnet")
            public == SubnetsOn(PublicRouteTables)
            private == SubnetsOn(PrivateRouteTables)
            zone(n) == emitted[n].props.availability_zone
            zones == {zone(n) : n \in subnets}
        IN /\ Cardinality(subnets) = 4
           /\ Cardinality(public) = 2
           /\ Cardinality(private) = 2
           /\ public \cap private = {}
           /\ \A n \in subnets :
                Parses(emitted[n].props.cidr_block)
                    /\ PrefixLen(emitted[n].props.cidr_block) = 24
           /\ Cardinality(zones) = 2
           /\ \A z \in zones :
                /\ Cardinality({n \in public : zone(n) = z}) = 1
                /\ Cardinality({n \in private : zone(n) = z}) = 1
           /\ Cardinality(PublicRouteTables) = 1
           /\ Cardinality(PrivateRouteTables) = 1

\* the default block was accepted and the whole network submitted
C13_Witness ==
    /\ call.kind = "VPC"
    /\ call.args.cidr_block = Cidr(10, 0, 0, 0, 16)
    /\ result.status = "ok"
    /\ Cardinality(Submissions("aws:ec2/subnet:Subnet")) = 4
    /\ Cardinality(Submissions("aws:ec2/natGateway:NatGateway")) = 1

(* C14: a VPC call that returns has submitted a gateway-type VPC endpoint    *)
(* for object storage (S3) whose route tables include the public one.       *)
C14_StorageGatewayEndpoint ==
    (call.kind = "VPC" /\ result.status = "ok") =>
        \E i \in Submissions("aws:ec2/vpcEndpoint:VpcEndpoint") :
            /\ emitted[i].props.vpc_endpoint_type = "Gateway"
            /\ emitted[i].props.service = "s3"
            /\ \E t \in PublicRouteTables :
                \E k \in 1..Len(emitted[i].props.route_table_ids) :
                    emitted[i].props.route_table_ids[k] = Ref(emitted[t].name, "id")

(* C15: the process starts with no priority given out, and each             *)
(* HostBasedALBTargetGroup declaration that reaches listener-rule creation  *)
(* takes the next one: the first gets 1, and each later one gets one more   *)
(* than the declaration before it; other steps give none out. So the k-th   *)
(* such declaration gets priority k, and priorities are distinct and        *)
(* increase in declaration order.                                           *)
ReachesListenerRule ==
    /\ call'.kind = "HostBasedALBTargetGroup"
    /\ call.kind = "none"
    /\ \/ Len(emitted') = 3
       \/ /\ result'.status = "raised"
          /\ Len(result'.msg) >= 2
          /\ result'.msg[2] = "Failed to create listener rule"

\* the priorities given out before this state are 1 .. GivenOut
GivenOut == priority_counter - 1

C15_PrioritiesCountUp ==
    /\ GivenOut = 0
    /\ [][IF ReachesListenerRule
          THEN /\ GivenOut' = GivenOut + 1
               /\ Len(emitted') = 3 =>
                    /\ emitted'[3].type = "aws:lb/listenerRule:ListenerRule"
                    /\ emitted'[3].props.priority = GivenOut + 1
          ELSE GivenOut' = GivenOut]_vars

\* a second target group was declared and its rule has priority 2
C15_Witness ==
    /\ call.kind = "HostBasedALBTargetGroup"
    /\ result.status = "ok"
    /\ Len(emitted) = 3
    /\ emitted[3].props.priority = 2
    /\ priority_counter = 3

(* C16: when the composition is run a second time in the same process,      *)
(* each target-group declaration gets the listener-rule priority it got in  *)
(* the first run.                                                           *)
RulePriorities(entry) ==
    {entry.emitted[k].props.priority :
        k \in {n \in 1..Len(entry.emitted) :
                    entry.emitted[n].type = "aws:lb/listenerRule:ListenerRule"}}

C16_ReplayKeepsPriorities ==
    \A i \in 1..Len(log) :
        \A j \in 1..Len(log) :
            (log[i].var = log[j].var /\ log[i].status = "ok" /\ log[j].status = "ok")
                => RulePriorities(log[i]) = RulePriorities(log[j])

(* C17: once a declaration of the composition has raised, nothing more is    *)
(* submitted and no statement runs: the record of declarations and the      *)
(* submitted resources stay as they are; and no declaration is ever made    *)
(* twice, so a failed one is not tried again.                               *)
DeclaredOnce ==
    \A i \in 1..Len(log) :
        \A j \in 1..Len(log) : log[i].var = log[j].var => i = j

OnlyTheLastRaised ==
    \A i \in 1..Len(log) : log[i].status = "raised" => i = Len(log)

C17_FailFastNoRetry ==
    /\ [](DeclaredOnce /\ OnlyTheLastRaised)
    /\ [][result.status = "raised" => (log' = log /\ emitted' = emitted /\ pc' = pc)]_vars

\* a declaration in the middle of the composition raised after earlier ones
\* had been made, and later ones remain
C17_Witness ==
    /\ result.status = "raised"
    /\ Len(log) \in 2..(Len(MainOrder) - 1)
    /\ log[Len(log)].status = "raised"
    /\ pc = Len(log)

(* C18: whatever the declaration kind, when the provider rejects one of the *)
(* declaration's resources the caller gets one error whose message starts   *)
(* with the failure text of that kind ("Failed to create RDS resources",    *)
(* "Failed to create ECS Service", ...) and ends with the provider's        *)
(* reason: the provider's error neither escapes as it is nor disappears.    *)
KindMessage(kind) ==
    CASE kind = "VPC" -> "Failed to create VPC resources"
      [] kind = "SecurityGroup" -> "Failed to create Security Group"
      [] kind = "RDS" -> "Failed to create RDS resources"
      [] kind = "EC2Instance" -> "Failed to create EC2 Instance"
      [] kind = "ECSCluster" -> "Failed to create ECS Cluster"
      [] kind = "ECSService" -> "Failed to create ECS Service"
      [] kind = "ApplicationLoadBalancer" -> "Failed to create Application Load Balancer"
      [] kind = "HostBasedALBTargetGroup" -> "Failed to create Host-Based ALB Target Group"
      [] kind = "SSLCertificate" -> "Failed to create SSL Certificate"
      [] kind = "IAMPolicy" -> "Failed to create IAM Policy"
      [] kind = "IAMRole" -> "Failed to create IAM Role"
      [] OTHER -> "Failed to create DB Secret"

\* the arguments passed validation and the provider rejected the fail-th
\* resource of the declaration, those before it having been submitted
ProviderRejected ==
    /\ call.kind # "none"
    /\ call.args.fail > 0
    /\ ~Failed(ValidationOf(call))
    /\ Len(emitted) = call.args.fail
    /\ ~IsComponent(emitted[Len(emitted)]) \/ Len(emitted) = 1

WrappedForKind ==
    /\ Raised
    /\ Len(result.msg) >= 2
    /\ result.msg[1] = KindMessage(call.kind)
    /\ result.msg[Len(result.msg)] = ProviderError.msg[1]

C18_ProviderFailureWrapped == ProviderRejected /\ Raised => WrappedForKind

(* C19: a database declared without backup_retention submits its instance  *)
(* with backup_retention_period 7, one declared with backup_retention = n   *)
(* submits it with n (14, say); and the instance the composition submits    *)
(* carries the configured backupRetention, 7 when the setting is absent.    *)
InstancesIn(rs) ==
    {rs[k].props.backup_retention_period :
        k \in {n \in 1..Len(rs) : rs[n].type = "aws:rds/instance:Instance"}}

C19_BackupRetentionPassedThrough ==
    /\ call.kind = "RDS" =>
         \A period \in InstancesIn(emitted) :
            period = IF call.args.backup_retention = <<>> THEN 7
                     ELSE call.args.backup_retention[1]
    /\ \A i \in 1..Len(log) :
         log[i].var = "rds_instance" =>
            \A period \in InstancesIn(log[i].emitted) :
                \/ config.backupRetention = <<>> /\ period = 7
                \/ config.backupRetention = <<(<<"0">>)>> /\ period = 0
                \/ config.backupRetention = <<(<<"1", "4">>)>> /\ period = 14

\* the composition ran with backupRetention set to 14 and submitted 14
C19_WitnessConfigured ==
    /\ \E i \in 1..Len(log) :
         log[i].var = "rds_instance" /\ InstancesIn(log[i].emitted) = {14}
    /\ config.backupRetention = <<(<<"1", "4">>)>>

\* a database was declared without the argument and submitted 7
C19_Witness ==
    /\ call.kind = "RDS"
    /\ pc = 0
    /\ call.args.backup_retention = <<>>
    /\ InstancesIn(emitted) = {7}

\* one was declared with 14 and submitted 14
C19_WitnessExplicit ==
    /\ call.kind = "RDS"
    /\ pc = 0
    /\ call.args.backup_retention = <<14>>
    /\ InstancesIn(emitted) = {14}

\* the composition ran with backupRetention unset and submitted 7
C19_WitnessUnset ==
    /\ \E i \in 1..Len(log) :
         log[i].var = "rds_instance" /\ InstancesIn(log[i].emitted) = {7}
    /\ config.backupRetention = <<>>

(* C20: every database instance RDS submits has manage_master_user_password *)
(* true and no password property, whatever the constructor was given for    *)
(* its manage_master_user_password argument.                                *)
DatabaseInstances == Submissions("aws:rds/instance:Instance")

C20_MasterPasswordManaged ==
    \A k \in DatabaseInstances :
        /\ emitted[k].props.manage_master_user_password = TRUE
        /\ "password" \notin DOMAIN emitted[k].props

\* the constructor was told not to manage the password and the instance was
\* submitted all the same with the provider managing it
C20_Witness ==
    /\ call.kind = "RDS"
    /\ call.args.manage_master_user_password = FALSE
    /\ result.status = "ok"
    /\ DatabaseInstances # {}
    /\ \A k \in DatabaseInstances : emitted[k].props.manage_master_user_password

(* C21: within one run of the composition, no two submitted resources of    *)
(* the same resource type have the same name, the children of components    *)
(* that share a base name included (the target group and the service are    *)
(* both declared as nginx-{stack}).                                         *)
RECURSIVE SubmittedUpTo(_)
SubmittedUpTo(n) == IF n = 0 THEN <<>> ELSE SubmittedUpTo(n - 1) \o log[n].emitted

AllSubmitted == SubmittedUpTo(Len(log))

C21_NamesDistinctPerType ==
    \A i \in 1..Len(AllSubmitted) :
        \A j \in 1..Len(AllSubmitted) :
            (AllSubmitted[i].type = AllSubmitted[j].type
                /\ AllSubmitted[i].name = AllSubmitted[j].name) => i = j

\* the whole composition was submitted, the target group and the service
\* under the same base name
C21_Witness ==
    /\ Len(log) = Len(MainOrder)
    /\ result.status = "ok"
    /\ log[13].emitted[1].name = log[14].emitted[1].name
    /\ Len(log[13].emitted) > 1
    /\ Len(log[14].emitted) > 1

(* C22: in a network declaration every resource is submitted after the     *)
(* resources it reads: the NAT gateway after its Elastic IP and after the   *)
(* first public subnet, in which it sits; each route table after the        *)
(* gateway its default route goes to; each route-table association after    *)
(* its subnet and its route table; and each of them after the VPC.          *)
SubmittedBefore(k, reference, type) ==
    \E j \in 1..(k - 1) : emitted[j].name = reference.ref /\ emitted[j].type = type

RouteTargetsBefore(k) ==
    \A n \in 1..Len(emitted[k].props.routes) :
        LET route == emitted[k].props.routes[n]
        IN /\ "gateway_id" \in DOMAIN route =>
                SubmittedBefore(k, route.gateway_id, "aws:ec2/internetGateway:InternetGateway")
           /\ "nat_gateway_id" \in DOMAIN route =>
                SubmittedBefore(k, route.nat_gateway_id, "aws:ec2/natGateway:NatGateway")
           /\ {"gateway_id", "nat_gateway_id"} \cap DOMAIN route # {}

C22_DependenciesSubmittedFirst ==
    call.kind = "VPC" =>
        \A k \in 1..Len(emitted) :
            LET r == emitted[k]
            IN /\ "vpc_id" \in DOMAIN r.props =>
                    SubmittedBefore(k, r.props.vpc_id, "aws:ec2/vpc:Vpc")
               /\ r.type = "aws:ec2/natGateway:NatGateway" =>
                    /\ SubmittedBefore(k, r.props.subnet_id, "aws:ec2/subnet:Subnet")
                    /\ r.props.subnet_id.ref =
                            call.args.name \o <<"-public-subnet-az", "1">>
                    /\ SubmittedBefore(k, r.props.allocation_id, "aws:ec2/eip:Eip")
               /\ r.type = "aws:ec2/routeTable:RouteTable" => RouteTargetsBefore(k)
               /\ r.type = "aws:ec2/routeTableAssociation:RouteTableAssociation" =>
                    /\ SubmittedBefore(k, r.props.subnet_id, "aws:ec2/subnet:Subnet")
                    /\ SubmittedBefore(k, r.props.route_table_id,
                                       "aws:ec2/routeTable:RouteTable")

\* a network declaration ran to its end: NAT gateway, both route tables and
\* the four associations were submitted
C22_Witness ==
    /\ call.kind = "VPC"
    /\ result.status = "ok"
    /\ Cardinality(Submissions("aws:ec2/natGateway:NatGateway")) = 1
    /\ Cardinality(Submissions("aws:ec2/routeTable:RouteTable")) = 2
    /\ Cardinality(Submissions("aws:ec2/routeTableAssociation:RouteTableAssociation")) = 4

(* C23: an ECS service declaration that returns has submitted a log group  *)
(* exactly when it was given no log group name, a given name going into the *)
(* task definition as it is; and it has submitted exactly one task          *)
(* definition, one service, one scalable target and two target-tracking     *)
(* scaling policies, one on CPU and one on memory, each with target value   *)
(* 50 and scale-in and scale-out cooldowns of 60 seconds.                   *)
LogGroupSupplied == call.args.log_group_name \notin {NONE, ""}

ScalingPolicies == Submissions("aws:appautoscaling/policy:Policy")

C23_ServiceResources ==
    (call.kind = "ECSService" /\ result.status = "ok") =>
        /\ Cardinality(Submissions("aws:cloudwatch/logGroup:LogGroup"))
                = IF LogGroupSupplied THEN 0 ELSE 1
        /\ Cardinality(Submissions("aws:ecs/taskDefinition:TaskDefinition")) = 1
        /\ \A t \in Submissions("aws:ecs/taskDefinition:TaskDefinition") :
              LET used == emitted[t].props.container_definitions[1].logGroup
              IN IF LogGroupSupplied
                 THEN used.given /\ used.name = call.args.log_group_name
                 ELSE \E g \in Submissions("aws:cloudwatch/logGroup:LogGroup") :
                        g < t /\ used.ref = emitted[g].name
        /\ Cardinality(Submissions("aws:ecs/service:Service")) = 1
        /\ Cardinality(Submissions("aws:appautoscaling/target:Target")) = 1
        /\ Cardinality(ScalingPolicies) = 2
        /\ {emitted[k].props.predefinedMetricType : k \in ScalingPolicies}
                = {"ECSServiceAverageCPUUtilization", "ECSServiceAverageMemoryUtilization"}
        /\ \A k \in ScalingPolicies :
              /\ emitted[k].props.policy_type = "TargetTrackingScaling"
              /\ emitted[k].props.targetValue = 50
              /\ emitted[k].props.scaleInCooldown = 60
              /\ emitted[k].props.scaleOutCooldown = 60

\* a service was declared with a log group name of its own
C23_Witness ==
    /\ call.kind = "ECSService"
    /\ result.status = "ok"
    /\ call.args.log_group_name = "/ecs/mine"
    /\ Cardinality(ScalingPolicies) = 2

\* and one without
C23_WitnessCreated ==
    /\ call.kind = "ECSService"
    /\ result.status = "ok"
    /\ call.args.log_group_name = NONE
    /\ Cardinality(Submissions("aws:cloudwatch/logGroup:LogGroup")) = 1

(* C24: a load balancer declaration that returns has submitted exactly one  *)
(* load balancer and exactly two listeners, both on that load balancer: an  *)
(* HTTPS listener on port 443 whose one default action is a fixed response, *)
(* and an HTTP listener on port 80 whose one default action redirects to    *)
(* HTTPS, port 443, with status 301.                                        *)
LoadBalancers == Submissions("aws:lb/loadBalancer:LoadBalancer")
Listeners == Submissions("aws:lb/listener:Listener")
ListenersOn(protocol) == {k \in Listeners : emitted[k].props.protocol = protocol}

C24_LoadBalancerListeners ==
    (call.kind = "ApplicationLoadBalancer" /\ result.status = "ok") =>
        /\ Cardinality(LoadBalancers) = 1
        /\ Cardinality(Listeners) = 2
        /\ \A k \in Listeners :
              /\ \E b \in LoadBalancers :
                    b < k /\ emitted[k].props.load_balancer_arn = Ref(emitted[b].name, "arn")
              /\ Len(emitted[k].props.default_actions) = 1
        /\ Cardinality(ListenersOn("HTTPS")) = 1
        /\ Cardinality(ListenersOn("HTTP")) = 1
        /\ \A k \in ListenersOn("HTTPS") :
              /\ emitted[k].props.port = 443
              /\ emitted[k].props.default_actions[1].type = "fixed-response"
        /\ \A k \in ListenersOn("HTTP") :
              /\ emitted[k].props.port = 80
              /\ emitted[k].props.default_actions[1].type = "redirect"
              /\ emitted[k].props.default_actions[1].protocol = "HTTPS"
              /\ emitted[k].props.default_actions[1].port = "443"
              /\ emitted[k].props.default_actions[1].status_code = "HTTP_301"

\* a load balancer was declared and both listeners were submitted
C24_Witness ==
    /\ call.kind = "ApplicationLoadBalancer"
    /\ result.status = "ok"
    /\ Cardinality(Listeners) = 2

(* C25: the certificate a certificate declaration submits asks for DNS      *)
(* validation and has www.<domain> among its subject alternative names      *)
(* exactly when include_www is true; and a declaration whose domain name    *)
(* does not pass the format check raises with nothing submitted, neither    *)
(* the certificate nor the component.                                       *)
Certificates == Submissions("aws:acm/certificate:Certificate")

AlternativeNames(k) ==
    {emitted[k].props.subject_alternative_names[n] :
        n \in 1..Len(emitted[k].props.subject_alternative_names)}

C25_CertificateRequest ==
    call.kind = "SSLCertificate" =>
        /\ \A k \in Certificates :
              /\ emitted[k].props.validation_method = "DNS"
              /\ emitted[k].props.domain_name = call.args.domain_name
              /\ call.args.domain_name \in AlternativeNames(k)
              /\ (<<"www.">> \o call.args.domain_name) \in AlternativeNames(k)
                    <=> call.args.include_www
        /\ result.status = "ok" => Cardinality(Certificates) = 1
        /\ ~ReMatchDomain(call.args.domain_name) =>
              /\ Raised
              /\ result.exc = "ValueError"
              /\ emitted = <<>>

\* a certificate with the www name was submitted
C25_Witness ==
    /\ call.kind = "SSLCertificate"
    /\ call.args.include_www
    /\ result.status = "ok"
    /\ \E k \in Certificates : Cardinality(AlternativeNames(k)) = 2

\* one without it
C25_WitnessPlain ==
    /\ call.kind = "SSLCertificate"
    /\ ~call.args.include_www
    /\ \E k \in Certificates : AlternativeNames(k) = {call.args.domain_name}

\* a declaration was rejected for the format of its domain name
C25_WitnessRejected ==
    /\ call.kind = "SSLCertificate"
    /\ Len(call.args.name) > 0
    /\ Len(call.args.domain_name) > 0
    /\ ~ReMatchDomain(call.args.domain_name)
    /\ Raised

(* C26: the priority counter is not safe when two declarations run          *)
(* concurrently in one process. Reading the counter and incrementing it are *)
(* separate steps: the step that takes a thread's priority leaves the       *)
(* counter as it was, and the increment stores one more than the value it   *)
(* loaded, whatever the counter has become since. Hence the interleaving    *)
(* of C26_Witness, in which both declarations submit their listener rule    *)
(* with the same priority.                                                  *)
ListenerRules == Submissions("aws:lb/listenerRule:ListenerRule")

C26_ReadAndIncrementAreSeparate ==
    [][\A t \in Threads :
        /\ (threads[t].at = "read" /\ threads'[t].at # "read") =>
                /\ threads'[t].priority = priority_counter
                /\ priority_counter' = priority_counter
        /\ (threads[t].at = "store" /\ threads'[t].at # "store") =>
                priority_counter' = threads[t].loaded + 1]_vars

\* both threads have declared their target group and the two listener rules
\* carry the same priority
C26_Witness ==
    /\ \A t \in Threads : threads[t].at = "done"
    /\ Cardinality(ListenerRules) = 2
    /\ \A i \in ListenerRules :
         \A j \in ListenerRules : emitted[i].props.priority = emitted[j].props.priority

(* C27: a target-group declaration that raises, be it in validation, at    *)
(* the target group or at the listener rule, leaves the priority counter    *)
(* as it found it.                                                          *)
C27_FailureKeepsCounter ==
    [][(call.kind = "none" /\ call'.kind = "HostBasedALBTargetGroup"
            /\ result'.status = "raised")
        => priority_counter' = priority_counter]_vars

(* C28: when a network declaration has returned, it has submitted four      *)
(* route-table associations, and every subnet it submitted is in exactly    *)
(* one of them, with the route table of the subnet's own type: a public     *)
(* subnet with the public route table, a private one with the private.      *)
Associations == Submissions("aws:ec2/routeTableAssociation:RouteTableAssociation")

AssociationsOf(n) ==
    {a \in Associations : emitted[a].props.subnet_id = Ref(emitted[n].name, "id")}

TableOfType(a, type) ==
    \E t \in Submissions("aws:ec2/routeTable:RouteTable") :
        /\ emitted[a].props.route_table_id = Ref(emitted[t].name, "id")
        /\ emitted[t].tags[1].Type = type
        /\ t \in (IF type = "Public" THEN PublicRouteTables ELSE PrivateRouteTables)

C28_EverySubnetAssociatedOnce ==
    (call.kind = "VPC" /\ result.status = "ok") =>
        /\ Cardinality(Associations) = 4
        /\ \A n \in Submissions("aws:ec2/subnet:Subnet") :
              /\ Cardinality(AssociationsOf(n)) = 1
              /\ \A a \in AssociationsOf(n) : TableOfType(a, emitted[n].tags[1].Type)
        /\ \A a \in Associations :
              \E n \in Submissions("aws:ec2/subnet:Subnet") : a \in AssociationsOf(n)

\* a network declaration returned with its public and its private subnets
C28_Witness ==
    /\ call.kind = "VPC"
    /\ result.status = "ok"
    /\ \E n \in Submissions("aws:ec2/subnet:Subnet") : emitted[n].tags[1].Type = "Public"
    /\ \E n \in Submissions("aws:ec2/subnet:Subnet") : emitted[n].tags[1].Type = "Private"
    /\ Associations # {}

(* C29: an ECS service declaration whose name, container and port are      *)
(* valid passes validation exactly when 1 <= min_count <= desired_count <=  *)
(* max_count; with any other three counts it raises ValueError "Invalid     *)
(* scaling configuration" with nothing submitted. Whatever the other        *)
(* arguments, counts outside that range are rejected with nothing           *)
(* submitted.                                                               *)
ScalingInRange ==
    /\ 1 <= call.args.min_count
    /\ call.args.min_count <= call.args.desired_count
    /\ call.args.desired_count <= call.args.max_count

OtherArgumentsValid ==
    /\ MatchesNamePattern(call.args.name)
    /\ call.args.container_name # ""
    /\ call.args.container_image # ""
    /\ call.args.container_port.v \in 1..MaxPort

C29_ScalingConfiguration ==
    call.kind = "ECSService" =>
        /\ OtherArgumentsValid =>
              IF ScalingInRange
              THEN result.exc # "ValueError" /\ emitted # <<>>
              ELSE /\ result = Raise("ValueError", <<"Invalid scaling configuration">>)
                   /\ emitted = <<>>
        /\ ~ScalingInRange =>
              /\ Raised
              /\ result.exc = "ValueError"
              /\ emitted = <<>>

\* a declaration asking for more tasks than its maximum was rejected
C29_Witness ==
    /\ call.kind = "ECSService"
    /\ OtherArgumentsValid
    /\ call.args.min_count >= 1
    /\ call.args.desired_count > call.args.max_count
    /\ call.args.max_count >= call.args.min_count
    /\ result.msg = <<"Invalid scaling configuration">>

\* one with min = desired = max was accepted
C29_WitnessAccepted ==
    /\ call.kind = "ECSService"
    /\ call.args.min_count = call.args.max_count
    /\ call.args.min_count = 2
    /\ ScalingInRange
    /\ result.status = "ok"

(* C30: in the composition the security group given to the ECS service is  *)
(* ecs_sg, the group that admits port 80 from the load balancer's group     *)
(* alb_sg and that the database group rds_sg admits on port 5432; so each   *)
(* hop load balancer -> service -> database is admitted.                    *)
ReadsFrom(var, argument) ==
    {r[2] : r \in {q \in UNION {log[i].refs : i \in {n \in 1..Len(log) : log[n].var = var}} :
                        q[1] = argument}}

Declared(var) == \E i \in 1..Len(log) : log[i].var = var

C30_SecurityGroupChain ==
    /\ Declared("ecs_sg") => ReadsFrom("ecs_sg", "ingress") = {"alb_sg"}
    /\ Declared("rds_sg") => ReadsFrom("rds_sg", "ingress") = {"ecs_sg"}
    /\ Declared("nginx_service") =>
            ReadsFrom("nginx_service", "security_group_id") = {"ecs_sg"}

=============================================================================
